---- MODULE Spec2Model ----
(***************************************************************************)
(* One HTTPClient instance (src/unnamed/part_003) as a state machine.      *)
(*                                                                         *)
(* Every action is one run-to-completion task of the Node.js event loop:   *)
(* a call of makeRequest() or cancelRequest() by the caller, one transport *)
(* event with all of its listeners, one timer callback, or one             *)
(* setImmediate callback.  The transport (node:http) is the environment:   *)
(* it decides when "socket", "finish", "response", "data", "end", "drain"  *)
(* and "error" are emitted, what write() returns and whether request()     *)
(* throws.  A destroyed request or response emits nothing but "error".     *)
(***************************************************************************)
EXTENDS Integers, Sequences, FiniteSets, TLC

\* ------------------------------------------------------------------ bounds
MaxBodySize == 3        \* request bodies of 1..MaxBodySize bytes
HighWaterMark == 2      \* clientRequest.writableHighWaterMark, in bytes
MaxChunks == 2          \* response "data" events per response
MaxErrors == 2          \* "error" events per instance

\* --------------------------------------------------------------- constants
CREATED == "CREATED"
REQUESTING == "REQUESTING"
CANCELLING == "CANCELLING"
FULFILLED == "FULFILLED"
CANCELLED == "CANCELLED"
FAILED == "FAILED"

\* null and undefined, as values comparable with every object of the model.
null == [null |-> TRUE]
undefined == [undefined |-> TRUE]

BODY_ENCODINGS ==
  {"utf8", "utf-8", "utf16le", "utf-16le", "ucs2", "ucs-2", "latin1", "ascii",
   "base64", "base64url", "hex"}

\* constants.HTTP_METHODS of the older draft (src/constants.js), without HEAD.
HTTP_METHODS_olderDraft == {"GET", "POST", "PUT", "DELETE", "PATCH"}

HTTP_METHODS == {"GET", "POST", "PUT", "DELETE", "PATCH", "HEAD"}

DEFAULT_SOCKET_TIMEOUT == 60 * 1000
DEFAULT_BODY_ENCODING == "utf8"
DEFAULT_AUTO_JSON_RESPONSE_PARSE == TRUE

ERROR_HTTP_REQUEST_URL_TYPE_INVALID == [name |-> "ERROR_HTTP_REQUEST_URL_TYPE_INVALID"]
ERROR_HTTP_REQUEST_URL_STRING_INVALID == [name |-> "ERROR_HTTP_REQUEST_URL_STRING_INVALID"]
ERROR_HTTP_REQUEST_URL_PROTOCOL_INVALID == [name |-> "ERROR_HTTP_REQUEST_URL_PROTOCOL_INVALID"]
ERROR_HTTP_REQUEST_METHOD_TYPE_INVALID == [name |-> "ERROR_HTTP_REQUEST_METHOD_TYPE_INVALID"]
ERROR_HTTP_REQUEST_METHOD_INVALID == [name |-> "ERROR_HTTP_REQUEST_METHOD_INVALID"]
ERROR_HTTP_REQUEST_HEADERS_TYPE_INVALID == [name |-> "ERROR_HTTP_REQUEST_HEADERS_TYPE_INVALID"]
ERROR_HTTP_REQUEST_TIMEOUT_TYPE_INVALID == [name |-> "ERROR_HTTP_REQUEST_TIMEOUT_TYPE_INVALID"]
ERROR_HTTP_REQUEST_TIMEOUT_OUT_OF_BOUNDS == [name |-> "ERROR_HTTP_REQUEST_TIMEOUT_OUT_OF_BOUNDS"]
ERROR_HTTP_REQUEST_BODY_TYPE_INVALID == [name |-> "ERROR_HTTP_REQUEST_BODY_TYPE_INVALID"]
ERROR_HTTP_REQUEST_BODY_ENCODING_TYPE_INVALID == [name |-> "ERROR_HTTP_REQUEST_BODY_ENCODING_TYPE_INVALID"]
ERROR_HTTP_REQUEST_BODY_ENCODING_INVALID == [name |-> "ERROR_HTTP_REQUEST_BODY_ENCODING_INVALID"]
ERROR_AUTO_JSON_RESPONSE_PARSE_OPTION_TYPE_INVALID == [name |-> "ERROR_AUTO_JSON_RESPONSE_PARSE_OPTION_TYPE_INVALID"]
ERROR_HTTP_REQUEST_MAKE_REQUEST_UNAVAILABLE == [name |-> "ERROR_HTTP_REQUEST_MAKE_REQUEST_UNAVAILABLE"]
ERROR_HTTP_REQUEST_CANCEL_UNAVAILABLE == [name |-> "ERROR_HTTP_REQUEST_CANCEL_UNAVAILABLE"]
ERROR_HTTP_REQUEST_TIMED_OUT == [name |-> "ERROR_HTTP_REQUEST_TIMED_OUT"]
ERROR_HTTP_RESPONSE_TIMED_OUT == [name |-> "ERROR_HTTP_RESPONSE_TIMED_OUT"]
ERROR_HTTP_REQUEST_CANCELLED == [name |-> "ERROR_HTTP_REQUEST_CANCELLED"]
ERROR_HTTP_RESPONSE_BODY_NOT_PARSEABLE_AS_JSON == [name |-> "ERROR_HTTP_RESPONSE_BODY_NOT_PARSEABLE_AS_JSON"]
ERROR_HTTP_REQUEST_BODY_OBJECT_NOT_SERIALIZABLE == [name |-> "ERROR_HTTP_REQUEST_BODY_OBJECT_NOT_SERIALIZABLE"]
ERROR_UNKNOWN == [name |-> "ERROR_UNKNOWN"]
ERROR_HTTP_RESPONSE_HEADERS_TYPE_INVALID == [name |-> "ERROR_HTTP_RESPONSE_HEADERS_TYPE_INVALID"]
ERROR_HTTP_RESPONSE_STATUS_CODE_TYPE_INVALID == [name |-> "ERROR_HTTP_RESPONSE_STATUS_CODE_TYPE_INVALID"]
ERROR_HTTP_RESPONSE_STATUS_MESSAGE_TYPE_INVALID == [name |-> "ERROR_HTTP_RESPONSE_STATUS_MESSAGE_TYPE_INVALID"]
ERROR_HTTP_RESPONSE_STATUS_CODE_OUT_OF_BOUNDS == [name |-> "ERROR_HTTP_RESPONSE_STATUS_CODE_OUT_OF_BOUNDS"]
ERROR_HTTP_RESPONSE_BODY_TYPE_INVALID == [name |-> "ERROR_HTTP_RESPONSE_BODY_TYPE_INVALID"]

\* ------------------------------------------------------- environment inputs
\* What the transport can report in an "error" event: a system error with a
\* code, or an error object without one.
SystemErrors == {[code |-> "ECONNRESET"], [message |-> "socket hang up"]}

\* What http.request() throws synchronously for options it does not accept
\* (an invalid header name or value).
TransportThrown == [name |-> "ERR_INVALID_HTTP_TOKEN"]

\* Response heads: the status code and the headers object, with or without a
\* "content-type" header.
StatusCodes == {200, 999}
ContentTypes == {"application/json", "application/json; charset=UTF-16LE",
                 "application/json; charset=bogus", "text/plain"}
ResponseHeaders ==
  {("server" :> "node")}
    \cup {("server" :> "node") @@ ("content-type" :> c) : c \in ContentTypes}

\* The texts the chunks of a response body decode to.
BodyTexts == {"{}", "null", "42", "{bad"}

\* The chunks of the "data" events: Buffers, one byte for each character.
ResponseChunks ==
  {[type |-> "Buffer", length |-> Len(text), text |-> text] : text \in BodyTexts}

\* The response bodies the server sends, as their chunks in order: no chunk,
\* one chunk of any text, or the chunk "{}" followed by chunks of "42".
ResponseBodies ==
  {body \in UNION {[1..n -> ResponseChunks] : n \in 0..MaxChunks} :
     \A i \in 2..Len(body) : body[1].text = "{}" /\ body[i].text = "42"}

\* Buffer.concat(list) with the Buffers taken last to first.
BufferConcat_lastFirst(list) ==
  LET concat[i \in 0..Len(list)] ==
        IF i = 0
        THEN [type |-> "Buffer", length |-> 0, text |-> ""]
        ELSE [type |-> "Buffer", length |-> concat[i - 1].length + list[i].length,
              text |-> list[i].text \o concat[i - 1].text]
  IN  concat[Len(list)]

\* Buffer.concat(list): the Buffers of the list one after the other.
BufferConcat(list) ==
  LET concat[i \in 0..Len(list)] ==
        IF i = 0
        THEN [type |-> "Buffer", length |-> 0, text |-> ""]
        ELSE [type |-> "Buffer", length |-> concat[i - 1].length + list[i].length,
              text |-> concat[i - 1].text \o list[i].text]
  IN  concat[Len(list)]

\* Request bodies: none, a Buffer of n bytes, a string (its UTF-16 code units:
\* U+00E9), or an object: one JSON.stringify serializes (as "{}", the code units
\* 123 and 125), one it throws on (a circular structure) and one it returns
\* undefined for (its toJSON() returns undefined).
RequestBodies ==
  {null, [type |-> "string", chars |-> <<233>>],
   [type |-> "object", stringify |-> "{}"],
   [type |-> "object", stringify |-> "throws"],
   [type |-> "object", stringify |-> "undefined"]}
    \cup {[type |-> "Buffer", length |-> n, bytes |-> [i \in 1..n |-> i]] :
            n \in 1..MaxBodySize}

\* The bodyEncoding options tried with a string body: one of each byte count.
RequestBodyEncodings == {"utf8", "latin1", "hex"}

\* Arguments tried with `new HTTPClient(url, options)`; undefined is an
\* argument or an option that is not given.
URLArguments ==
  {undefined, null, [class |-> "Object"],
   [typeof |-> "number", numerator |-> 1234, denominator |-> 1],
   [typeof |-> "string", string |-> "not a url"],
   [typeof |-> "string", string |-> "ftp://host/"],
   [typeof |-> "string", string |-> "http://host/"],
   [typeof |-> "string", string |-> "HTTPS://host/"],
   [class |-> "URL", protocol |-> "https:"],
   [class |-> "URL", protocol |-> "ftp:"]}
MethodOptions ==
  {undefined, [typeof |-> "number", numerator |-> 1, denominator |-> 1],
   [typeof |-> "string", string |-> "get"],
   [typeof |-> "string", string |-> "HEAD"],
   [typeof |-> "string", string |-> "trace"]}
HeadersOptions ==
  {undefined, null, [class |-> "Object"], [typeof |-> "string", string |-> "x"]}
TimeoutOptions ==
  {undefined, [typeof |-> "string", string |-> "10"],
   [typeof |-> "number", numerator |-> 3, denominator |-> 2],
   [typeof |-> "number", numerator |-> 0, denominator |-> 1],
   [typeof |-> "number", numerator |-> 1, denominator |-> 1]}
BodyOptions ==
  {undefined, null, [typeof |-> "number", numerator |-> 42, denominator |-> 1],
   [type |-> "string", chars |-> <<233>>],
   [type |-> "Buffer", length |-> 1, bytes |-> <<1>>]}
BodyEncodingOptions ==
  {undefined, [typeof |-> "number", numerator |-> 8, denominator |-> 1],
   [typeof |-> "string", string |-> "UTF8"],
   [typeof |-> "string", string |-> "BOGUS"],
   [typeof |-> "string", string |-> "hex"]}
AutoJSONResponseParseOptions ==
  {undefined, [typeof |-> "boolean", boolean |-> FALSE],
   [typeof |-> "string", string |-> "yes"]}

\* Arguments tried with `new HTTPResponse(headers, statusCode, statusMessage,
\* body)`.
HeadersArguments ==
  {undefined, null, [typeof |-> "string", string |-> "x"], ("server" :> "node")}
StatusCodeArguments ==
  {undefined, [typeof |-> "string", string |-> "200"]}
    \cup {[typeof |-> "number", numerator |-> n, denominator |-> d] :
            <<n, d>> \in {<<401, 2>>, <<99, 1>>, <<100, 1>>, <<200, 1>>,
                           <<599, 1>>, <<600, 1>>}}
StatusMessageArguments ==
  {undefined, [typeof |-> "number", numerator |-> 1, denominator |-> 1],
   [typeof |-> "string", string |-> "OK"]}
BodyArguments ==
  {undefined, null, [typeof |-> "number", numerator |-> 42, denominator |-> 1],
   [typeof |-> "string", string |-> "text"],
   [typeof |-> "object", json |-> "{}"],
   [type |-> "Buffer", length |-> 1, text |-> "x"]}

VARIABLES
  clientState,            \* #clientState
  requestOptionsValid,    \* whether http.request() accepts #requestOptions
  requestBody,            \* #requestBody
  requestBodyEncoding,    \* #requestBodyEncoding
  autoJSONResponseParse,  \* #autoJSONResponseParse
  constructorCall,        \* a `new` expression under evaluation: null, or [class, arguments]
  constructed,            \* what that expression gave: null, or [value] or [threw]
  requestPromise,         \* #requestPromise: null, or [status, value]
  cancelPromise,          \* #cancelPromise: null, or [status, value]
  clientRequest,          \* #clientRequest: null, or the transport request
  clientResponse,         \* #clientResponse: null, or the transport response
  httpResponse,           \* #httpResponse
  systemErrors,           \* #systemErrors
  teardownInitiated,      \* #teardownInitiated
  requestTimer,           \* #requestTimer: null, or a Timeout [armed]
  responseTimer,          \* #responseTimer: null, or a Timeout [armed]
  errorOccurred,          \* errorOccurred of #sendRequestBody
  requestBodyBufferPointer, \* requestBodyBufferPointer of #sendRequestBody
  responseBodyBufferSize, \* responseBodyBufferSize of the "response" listener
  responseBodyArrayOfBuffers, \* responseBodyArrayOfBuffers of the same listener
  immediates,             \* setImmediate callbacks not yet run, in order
  returned,               \* what the call that has just returned gave the caller
  uncaught,               \* an exception left a listener uncaught
  firstCause,             \* history: the first #teardown invocation
  droppedCauses,          \* history: origins of the later #teardown invocations
  settleCalls,            \* history: settlements of the perform-future
  terminalAssignments,    \* history: assignments of a terminal state
  promisesCreated         \* history: promise objects created, per field

vars ==
  <<clientState, requestOptionsValid, requestBody, requestBodyEncoding,
    autoJSONResponseParse, constructorCall, constructed, requestPromise, cancelPromise, clientRequest, clientResponse, httpResponse,
    systemErrors, teardownInitiated, requestTimer, responseTimer, errorOccurred,
    requestBodyBufferPointer, responseBodyBufferSize, responseBodyArrayOfBuffers, immediates, returned,
    uncaught, firstCause, droppedCauses, settleCalls, terminalAssignments,
    promisesCreated>>

\* The request configuration fixed by the constructor, and the constructor
\* call itself.
config ==
  <<requestOptionsValid, requestBody, requestBodyEncoding, autoJSONResponseParse,
    constructorCall, constructed>>

\* The history variables.
history ==
  <<firstCause, droppedCauses, settleCalls, terminalAssignments, promisesCreated>>

Terminal == {FULFILLED, CANCELLED, FAILED}

\* -------------------------------------------------------------- promises
Pending == [status |-> "pending"]
Resolved(v) == [status |-> "resolved", value |-> v]
Rejected(e) == [status |-> "rejected", value |-> e]

\* resolve() and reject() of a promise that is already settled do nothing.
Settle(p, outcome) == IF p = Pending THEN outcome ELSE p

Settled(p) == p # null /\ p # Pending

\* ---------------------------------------------------------- pure functions
\* String.prototype.toLowerCase on the charsets of ContentTypes.
toLowerCase(str) == IF str = "UTF-16LE" THEN "utf-16le" ELSE str

NoParameters == [name \in {} |-> ""]

\* contentType.parse of the "content-type" module on the headers of
\* ContentTypes: the media type and the parameters.
contentTypeParse(header) ==
  CASE header = "application/json" ->
         [type |-> "application/json", parameters |-> NoParameters]
    [] header = "application/json; charset=UTF-16LE" ->
         [type |-> "application/json", parameters |-> ("charset" :> "UTF-16LE")]
    [] header = "application/json; charset=bogus" ->
         [type |-> "application/json", parameters |-> ("charset" :> "bogus")]
    [] OTHER ->
         [type |-> "text/plain", parameters |-> NoParameters]

getResponseContentType(response) ==
  IF response = null THEN null
  ELSE IF "content-type" \notin DOMAIN response.headers THEN null
  ELSE [type |-> contentTypeParse(response.headers["content-type"]).type]

getResponseContentTypeCharset(response) ==
  IF response = null THEN null
  ELSE IF "content-type" \notin DOMAIN response.headers THEN null
  ELSE LET parameters == contentTypeParse(response.headers["content-type"]).parameters
       IN  IF "charset" \notin DOMAIN parameters THEN null
           ELSE [charset |-> parameters["charset"]]

\* The texts of digits the chunks can make up: "42", "4242", ...
JSONNumbers ==
  LET digits[n \in 1..MaxChunks] == IF n = 1 THEN "42" ELSE digits[n - 1] \o "42"
  IN  {digits[n] : n \in 1..MaxChunks}

\* JSON.parse of a body text: the parsed value with its typeof, or a throw.
JSONParse(text) ==
  CASE text = "{}"   -> [value |-> [typeof |-> "object", json |-> "{}"]]
    [] text = "null" -> [value |-> [typeof |-> "object", json |-> "null"]]
    [] text \in JSONNumbers -> [value |-> [typeof |-> "number", json |-> text]]
    [] OTHER         -> [threw |-> "SyntaxError"]

\* typeof: a primitive carries its type in the field `typeof` (a string body
\* in the field `type`); everything else, null included, is an "object".
typeof(v) ==
  IF v = undefined THEN "undefined"
  ELSE IF "typeof" \in DOMAIN v THEN v.typeof
  ELSE IF "type" \in DOMAIN v /\ v.type = "string" THEN "string"
  ELSE "object"

\* JavaScript values as the constructors see them.  A primitive is a record
\* with the field `typeof`: a number is the fraction numerator / denominator
\* (denominator > 0), a string and a boolean carry their value.  Everything
\* else is an object: null, a URL with its protocol, a plain object.
Number(numerator, denominator) ==
  [typeof |-> "number", numerator |-> numerator, denominator |-> denominator]
String(string) == [typeof |-> "string", string |-> string]
Boolean(boolean) == [typeof |-> "boolean", boolean |-> boolean]
URL(protocol) == [class |-> "URL", protocol |-> protocol]
Object == [class |-> "Object"]

\* The constructor of the older HTTPResponse class (src/unnamed/part_002, lines
\* 44 to 73), which takes an empty object for headers that are not given.
HTTPResponse_olderDraft(headers, statusCode, statusMessage, body) ==
  IF headers # undefined /\ typeof(headers) # "object"
  THEN [threw |-> ERROR_HTTP_RESPONSE_HEADERS_TYPE_INVALID]
  ELSE IF typeof(statusCode) # "number"
            \/ statusCode.numerator % statusCode.denominator # 0
  THEN [threw |-> ERROR_HTTP_RESPONSE_STATUS_CODE_TYPE_INVALID]
  ELSE IF \/ statusCode.numerator < 100 * statusCode.denominator
          \/ statusCode.numerator > 599 * statusCode.denominator
  THEN [threw |-> ERROR_HTTP_RESPONSE_STATUS_CODE_OUT_OF_BOUNDS]
  ELSE IF typeof(statusMessage) # "string"
  THEN [threw |-> ERROR_HTTP_RESPONSE_STATUS_MESSAGE_TYPE_INVALID]
  ELSE IF typeof(body) # "undefined" /\ typeof(body) # "object"
  THEN [threw |-> ERROR_HTTP_RESPONSE_BODY_TYPE_INVALID]
  ELSE [value |-> [headers |-> IF headers = undefined THEN Object ELSE headers,
                   statusCode |-> statusCode.numerator \div statusCode.denominator,
                   statusMessage |-> statusMessage.string, body |-> body]]

\* new HTTPResponse(headers, statusCode, statusMessage, body): the new object,
\* or what the constructor throws.  The arguments are JavaScript values (see
\* Number, String above); the object keeps the status code and the status
\* message as the integer and the text they are, and body is undefined when the
\* object has no body property.
HTTPResponse(headers, statusCode, statusMessage, body) ==
  IF typeof(headers) # "object"
  THEN [threw |-> ERROR_HTTP_RESPONSE_HEADERS_TYPE_INVALID]
  ELSE IF typeof(statusCode) # "number"
            \/ statusCode.numerator % statusCode.denominator # 0
  THEN [threw |-> ERROR_HTTP_RESPONSE_STATUS_CODE_TYPE_INVALID]
  ELSE IF \/ statusCode.numerator < 100 * statusCode.denominator
          \/ statusCode.numerator > 599 * statusCode.denominator
  THEN [threw |-> ERROR_HTTP_RESPONSE_STATUS_CODE_OUT_OF_BOUNDS]
  ELSE IF typeof(statusMessage) # "string"
  THEN [threw |-> ERROR_HTTP_RESPONSE_STATUS_MESSAGE_TYPE_INVALID]
  ELSE IF typeof(body) # "undefined" /\ typeof(body) # "object"
  THEN [threw |-> ERROR_HTTP_RESPONSE_BODY_TYPE_INVALID]
  ELSE [value |-> [headers |-> headers,
                   statusCode |-> statusCode.numerator \div statusCode.denominator,
                   statusMessage |-> statusMessage.string, body |-> body]]

\* createErrorFromSystemErrorCode of @jfabello/system-errors.
createErrorFromSystemErrorCode(code) ==
  CASE code = "ECONNRESET" -> [name |-> "ERROR_NETWORK_CONNECTION_RESET"]
    [] code = "EPIPE"      -> [name |-> "ERROR_BROKEN_PIPE"]
    [] OTHER               -> [name |-> code]

\* The listener passing the transport's error object to #teardown as it is.
convertSystemErrorToStandardError_raw(error) == error

convertSystemErrorToStandardError(error) ==
  IF "code" \in DOMAIN error
  THEN createErrorFromSystemErrorCode(error.code)
  ELSE ERROR_UNKNOWN

\* The bytes of one code unit below U+0800 in UTF-8.
utf8Bytes(c) == IF c < 128 THEN <<c>> ELSE <<192 + (c \div 64), 128 + (c % 64)>>

\* The value of a hexadecimal digit, or -1.
hexValue(c) ==
  IF c \in 48..57 THEN c - 48
  ELSE IF c \in 97..102 THEN c - 87
  ELSE IF c \in 65..70 THEN c - 55
  ELSE -1

RECURSIVE encodeString(_, _)
\* The bytes Buffer.from(string, encoding) gives for the code units `chars`:
\* hex decoding stops at the first pair that is not two hexadecimal digits.
encodeString(chars, encoding) ==
  IF chars = <<>> THEN <<>>
  ELSE CASE encoding \in {"utf8", "utf-8"} ->
              utf8Bytes(Head(chars)) \o encodeString(Tail(chars), encoding)
         [] encoding \in {"latin1", "ascii"} ->
              <<Head(chars) % 256>> \o encodeString(Tail(chars), encoding)
         [] encoding \in {"utf16le", "utf-16le", "ucs2", "ucs-2"} ->
              <<Head(chars) % 256, Head(chars) \div 256>>
                \o encodeString(Tail(chars), encoding)
         [] encoding = "hex" ->
              IF Len(chars) < 2 \/ hexValue(chars[1]) < 0 \/ hexValue(chars[2]) < 0
              THEN <<>>
              ELSE <<16 * hexValue(chars[1]) + hexValue(chars[2])>>
                     \o encodeString(Tail(Tail(chars)), encoding)

\* Buffer.from(string, encoding): the new Buffer, or the TypeError it throws
\* when the first argument is undefined.
BufferFrom(string, encoding) ==
  IF string = undefined
  THEN [threw |-> [name |-> "TypeError"]]
  ELSE LET bytes == encodeString(string.chars, encoding)
       IN  [value |-> [type |-> "Buffer", length |-> Len(bytes), bytes |-> bytes]]

\* JSON.stringify of a request body object: the text, undefined, or a throw.
JSONStringify(body) ==
  CASE body.stringify = "throws"    -> [threw |-> [name |-> "TypeError"]]
    [] body.stringify = "undefined" -> [value |-> undefined]
    [] body.stringify = "{}"        ->
         [value |-> [type |-> "string", chars |-> <<123, 125>>]]

\* #convertRequestBodyToBuffer: the Buffer, or what it throws.
convertRequestBodyToBuffer ==
  IF requestBody.type = "string"
  THEN BufferFrom(requestBody, requestBodyEncoding)
  ELSE IF requestBody.type = "object"
  THEN LET serializedRequestBody == JSONStringify(requestBody)
       IN  IF "threw" \in DOMAIN serializedRequestBody
           THEN [threw |-> ERROR_HTTP_REQUEST_BODY_OBJECT_NOT_SERIALIZABLE]
           ELSE BufferFrom(serializedRequestBody.value, "utf8")
  ELSE [value |-> requestBody]

\* ------------------------------------------------------------- constructors
\* url instanceof URL, for a url that is an object.
instanceofURL(v) == "class" \in DOMAIN v /\ v.class = "URL"

\* new URL(url) for the strings of the model: the URL, or a throw.  The parser
\* lowercases the scheme.
newURL(string) ==
  CASE string = "http://host/"  -> [value |-> URL("http:")]
    [] string = "HTTPS://host/" -> [value |-> URL("https:")]
    [] string = "ftp://host/"   -> [value |-> URL("ftp:")]
    [] OTHER                    -> [threw |-> [name |-> "TypeError"]]

\* String.prototype.toUpperCase on the method names of the model.
toUpperCase(str) ==
  CASE str = "get"   -> "GET"
    [] str = "trace" -> "TRACE"
    [] OTHER         -> str

\* String.prototype.toLowerCase on the encoding names of the model.
toLowerCaseEncoding(str) ==
  CASE str = "UTF8"  -> "utf8"
    [] str = "BOGUS" -> "bogus"
    [] OTHER         -> str

NumberIsInteger(v) ==
  typeof(v) = "number" /\ v.numerator % v.denominator = 0

\* v < 1 for a number v.
lessThanOne(v) == v.numerator < v.denominator

\* The parameter default of a destructured option: taken when the option is
\* undefined.
default(v, d) == IF v = undefined THEN d ELSE v

\* new HTTPClient(url, options): the fields of the new instance, or what the
\* constructor throws.
HTTPClient(url, options) ==
  LET method == default(options.method, String("GET"))
      headers == default(options.headers, Object)
      timeout == default(options.timeout, Number(DEFAULT_SOCKET_TIMEOUT, 1))
      body == options.body
      bodyEncoding == default(options.bodyEncoding, String(DEFAULT_BODY_ENCODING))
      autoJSONResponseParseOption ==
        default(options.autoJSONResponseParse, Boolean(DEFAULT_AUTO_JSON_RESPONSE_PARSE))
      parsed == IF typeof(url) = "string" THEN newURL(url.string) ELSE [value |-> url]
  IN  IF typeof(url) # "string" /\ typeof(url) # "object"
      THEN [threw |-> ERROR_HTTP_REQUEST_URL_TYPE_INVALID]
      ELSE IF typeof(url) = "object" /\ ~instanceofURL(url)
      THEN [threw |-> ERROR_HTTP_REQUEST_URL_TYPE_INVALID]
      ELSE IF "threw" \in DOMAIN parsed
      THEN [threw |-> ERROR_HTTP_REQUEST_URL_STRING_INVALID]
      ELSE IF parsed.value.protocol # "http:" /\ parsed.value.protocol # "https:"
      THEN [threw |-> ERROR_HTTP_REQUEST_URL_PROTOCOL_INVALID]
      ELSE IF typeof(method) # "string"
      THEN [threw |-> ERROR_HTTP_REQUEST_METHOD_TYPE_INVALID]
      ELSE IF toUpperCase(method.string) \notin HTTP_METHODS
      THEN [threw |-> ERROR_HTTP_REQUEST_METHOD_INVALID]
      ELSE IF typeof(headers) # "undefined" /\ typeof(headers) # "object"
      THEN [threw |-> ERROR_HTTP_REQUEST_HEADERS_TYPE_INVALID]
      ELSE IF ~NumberIsInteger(timeout)
      THEN [threw |-> ERROR_HTTP_REQUEST_TIMEOUT_TYPE_INVALID]
      ELSE IF lessThanOne(timeout)
      THEN [threw |-> ERROR_HTTP_REQUEST_TIMEOUT_OUT_OF_BOUNDS]
      ELSE IF typeof(body) # "undefined" /\ typeof(body) # "string"
                /\ typeof(body) # "object"
      THEN [threw |-> ERROR_HTTP_REQUEST_BODY_TYPE_INVALID]
      ELSE IF typeof(body) # "undefined" /\ typeof(bodyEncoding) # "string"
      THEN [threw |-> ERROR_HTTP_REQUEST_BODY_ENCODING_TYPE_INVALID]
      ELSE IF typeof(body) # "undefined"
                /\ toLowerCaseEncoding(bodyEncoding.string) \notin BODY_ENCODINGS
      THEN [threw |-> ERROR_HTTP_REQUEST_BODY_ENCODING_INVALID]
      ELSE IF typeof(autoJSONResponseParseOption) # "boolean"
      THEN [threw |-> ERROR_AUTO_JSON_RESPONSE_PARSE_OPTION_TYPE_INVALID]
      ELSE [value |->
              [clientState |-> CREATED,
               requestURL |-> parsed.value,
               requestOptions |->
                 [method |-> toUpperCase(method.string), headers |-> headers],
               clientTimeout |-> timeout.numerator \div timeout.denominator,
               requestBody |-> IF typeof(body) # "undefined" THEN body ELSE null,
               requestBodyEncoding |->
                 IF typeof(body) # "undefined"
                 THEN [encoding |-> toLowerCaseEncoding(bodyEncoding.string)]
                 ELSE null,
               autoJSONResponseParse |-> autoJSONResponseParseOption.boolean,
               httpApi |-> IF parsed.value.protocol = "https:" THEN "https" ELSE "http"]]

\* ----------------------------------------------------------------- timers
\* A Timeout is [armed, remaining]: whether its callback is still to run, and
\* the time left of its countdown.  #clientTimeout is one unit of time.
Armed(timer) == timer # null /\ timer.armed

clientTimeout == 1

\* setTimeout(callback, this.#clientTimeout)
setTimeout == [armed |-> TRUE, remaining |-> clientTimeout]

\* refresh() that leaves the countdown where it is.
refresh_keepsCountdown(timer) == timer

\* if (timer !== null) timer.refresh(): restarts the countdown, also of a timer
\* that has fired.
refresh(timer) ==
  IF timer # null THEN [armed |-> TRUE, remaining |-> clientTimeout] ELSE timer

\* An armed timer's callback runs when its countdown has run out.
Due(timer) == Armed(timer) /\ timer.remaining = 0

\* One unit of time passes for the timer.
elapse(timer) ==
  IF Armed(timer) /\ timer.remaining > 0
  THEN [timer EXCEPT !.remaining = @ - 1]
  ELSE timer

\* if (timer !== null) { clearTimeout(timer); timer = null; }
clearTimer(timer) == null

Min(a, b) == IF a < b THEN a ELSE b

\* ------------------------------------------------------------- the state
\* The fields of a new instance that the constructor does not assign.
InitInstance ==
  /\ requestPromise = null
  /\ cancelPromise = null
  /\ clientRequest = null
  /\ clientResponse = null
  /\ httpResponse = null
  /\ systemErrors = <<>>
  /\ teardownInitiated = FALSE
  /\ requestTimer = null
  /\ responseTimer = null
  /\ errorOccurred = FALSE
  /\ requestBodyBufferPointer = 0
  /\ responseBodyBufferSize = 0
  /\ responseBodyArrayOfBuffers = <<>>
  /\ immediates = <<>>
  /\ returned = null
  /\ uncaught = FALSE
  /\ firstCause = null
  /\ droppedCauses = {}
  /\ settleCalls = 0
  /\ terminalAssignments = 0
  /\ promisesCreated = [requestPromise |-> 0, cancelPromise |-> 0]

Init ==
  /\ clientState = CREATED
  /\ requestOptionsValid \in BOOLEAN
  /\ requestBody \in RequestBodies
  /\ requestBodyEncoding \in
       IF requestBody # null /\ requestBody.type = "string"
       THEN RequestBodyEncodings ELSE {"utf8"}
  /\ autoJSONResponseParse \in BOOLEAN
  /\ constructorCall = null
  /\ constructed = null
  /\ InitInstance

\* The request http.request() returns: what the transport has emitted and been
\* told, the number of "drain" listeners registered on it, the number of calls
\* of end(), the headers set on it with setHeader() and the chunks passed to
\* write().
NewClientRequest ==
  [socket |-> FALSE, ended |-> FALSE, finished |-> FALSE, destroyed |-> FALSE,
   needDrain |-> FALSE, drainListeners |-> 0, endCalls |-> 0,
   headers |-> NoParameters, written |-> <<>>]

\* The IncomingMessage of a "response" event; `body` is the text its bytes
\* decode to, known once the stream has ended.
NewClientResponse(statusCode, headers) ==
  [statusCode |-> statusCode, statusMessage |-> "message", headers |-> headers,
   ended |-> FALSE, destroyed |-> FALSE, body |-> null]

destroy(stream) == [stream EXCEPT !.destroyed = TRUE]

\* History of the #teardown invocations: the first one with its error, the
\* response assembled by then and whether the request had finished; of the
\* later ones, the origins.
noteCause(origin, error, response) ==
  IF firstCause = null
  THEN /\ firstCause' = [origin |-> origin, error |-> error, httpResponse |-> response,
                         finished |-> clientRequest # null /\ clientRequest.finished]
       /\ UNCHANGED droppedCauses
  ELSE /\ droppedCauses' = droppedCauses \cup {origin}
       /\ UNCHANGED firstCause

\* The part of #teardown(error) behind its guard, without the clearing of the
\* two timers.
teardownRun_keepsTimers(error, T) ==
  /\ teardownInitiated' = TRUE
  /\ requestTimer' = T.requestTimer
  /\ responseTimer' = T.responseTimer
  /\ clientResponse' =
       IF error # null /\ T.clientResponse # null
       THEN destroy(T.clientResponse) ELSE T.clientResponse
  /\ clientRequest' =
       IF error # null /\ T.clientRequest # null
       THEN destroy(T.clientRequest) ELSE T.clientRequest
  /\ immediates' = Append(immediates, [task |-> "teardown", error |-> error])

\* The part of #teardown(error) behind its guard, destroying the response and
\* the request whatever the cause is.
teardownRun_destroysAlways(error, T) ==
  /\ teardownInitiated' = TRUE
  /\ requestTimer' = clearTimer(T.requestTimer)
  /\ responseTimer' = clearTimer(T.responseTimer)
  /\ clientResponse' =
       IF T.clientResponse # null THEN destroy(T.clientResponse) ELSE T.clientResponse
  /\ clientRequest' =
       IF T.clientRequest # null THEN destroy(T.clientRequest) ELSE T.clientRequest
  /\ immediates' = Append(immediates, [task |-> "teardown", error |-> error])

\* The part of #teardown(error) behind its guard.
teardownRun(error, T) ==
  /\ teardownInitiated' = TRUE
  /\ requestTimer' = clearTimer(T.requestTimer)
  /\ responseTimer' = clearTimer(T.responseTimer)
  /\ clientResponse' =
       IF error # null /\ T.clientResponse # null
       THEN destroy(T.clientResponse) ELSE T.clientResponse
  /\ clientRequest' =
       IF error # null /\ T.clientRequest # null
       THEN destroy(T.clientRequest) ELSE T.clientRequest
  /\ immediates' = Append(immediates, [task |-> "teardown", error |-> error])

\* #teardown(error) without the one-shot guard.
teardown_unguarded(error, T) == teardownRun(error, T)

\* #teardown(error) with a guard that lets a later cause replace the error of
\* the deferred step.
teardown_lastCauseWins(error, T) ==
  IF teardownInitiated
  THEN /\ requestTimer' = T.requestTimer
       /\ responseTimer' = T.responseTimer
       /\ clientRequest' = T.clientRequest
       /\ clientResponse' = T.clientResponse
       /\ immediates' =
            [i \in DOMAIN immediates |->
               IF immediates[i].task = "teardown"
               THEN [task |-> "teardown", error |-> error] ELSE immediates[i]]
       /\ UNCHANGED teardownInitiated
  ELSE teardownRun(error, T)

\* #teardown(error), entered with the instance fields as the calling listener
\* has left them: T = [requestTimer, responseTimer, clientRequest,
\* clientResponse].
teardown(error, T) ==
  IF teardownInitiated
  THEN /\ requestTimer' = T.requestTimer
       /\ responseTimer' = T.responseTimer
       /\ clientRequest' = T.clientRequest
       /\ clientResponse' = T.clientResponse
       /\ UNCHANGED <<teardownInitiated, immediates>>
  ELSE teardownRun(error, T)

\* The instance fields as they are when a listener starts.
Fields ==
  [requestTimer |-> requestTimer, responseTimer |-> responseTimer,
   clientRequest |-> clientRequest, clientResponse |-> clientResponse]

\* --------------------------------------------------------- the caller's API
\* What a call leaves alone when it returns an existing promise or throws.
callLeavesInstanceAlone ==
  UNCHANGED <<clientState, config, requestPromise, cancelPromise, clientRequest,
              clientResponse, httpResponse, systemErrors, teardownInitiated,
              requestTimer, responseTimer, errorOccurred, requestBodyBufferPointer,
              responseBodyBufferSize, responseBodyArrayOfBuffers, immediates, uncaught, history>>

\* makeRequest() in CREATED.  The listeners of the request and the
\* "cancelhttprequest" listener are registered exactly when http.request() has
\* returned, that is when clientRequest is not null; when http.request()
\* throws, the promise executor rejects the new promise with what was thrown.
makeRequestStart ==
  /\ clientState' = REQUESTING
  /\ IF requestOptionsValid
     THEN /\ requestPromise' = Pending
          /\ clientRequest' = NewClientRequest
          /\ UNCHANGED settleCalls
     ELSE /\ requestPromise' = Rejected(TransportThrown)
          /\ settleCalls' = settleCalls + 1
          /\ UNCHANGED clientRequest
  /\ promisesCreated' =
       [promisesCreated EXCEPT !.requestPromise = promisesCreated.requestPromise + 1]
  /\ returned' = [op |-> "makeRequest", value |-> "requestPromise"]
  /\ UNCHANGED <<config, cancelPromise, clientResponse, httpResponse, systemErrors,
                 teardownInitiated, requestTimer, responseTimer, errorOccurred,
                 requestBodyBufferPointer, responseBodyBufferSize, responseBodyArrayOfBuffers, immediates,
                 uncaught, firstCause, droppedCauses, terminalAssignments>>

\* makeRequest() without the check that the state is CREATED.
makeRequest_unchecked ==
  IF clientState = REQUESTING
  THEN /\ returned' = [op |-> "makeRequest", value |-> "requestPromise"]
       /\ callLeavesInstanceAlone
  ELSE makeRequestStart

\* makeRequest() that starts the request again when the state is REQUESTING.
makeRequest_restarts ==
  IF clientState \in {CREATED, REQUESTING}
  THEN makeRequestStart
  ELSE /\ returned' = [op |-> "makeRequest",
                       threw |-> ERROR_HTTP_REQUEST_MAKE_REQUEST_UNAVAILABLE]
       /\ callLeavesInstanceAlone

\* makeRequest().
makeRequest ==
  IF clientState = REQUESTING
  THEN /\ returned' = [op |-> "makeRequest", value |-> "requestPromise"]
       /\ callLeavesInstanceAlone
  ELSE IF clientState # CREATED
  THEN /\ returned' = [op |-> "makeRequest",
                       threw |-> ERROR_HTTP_REQUEST_MAKE_REQUEST_UNAVAILABLE]
       /\ callLeavesInstanceAlone
  ELSE makeRequestStart

\* cancelRequest() in REQUESTING with an executor that resolves the new promise
\* itself instead of waiting for "httprequestcancelled".
cancelRequestStart_resolvesAtOnce ==
  /\ clientState' = CANCELLING
  /\ cancelPromise' = Resolved(TRUE)
  /\ IF clientRequest # null
     THEN /\ teardown(ERROR_HTTP_REQUEST_CANCELLED, Fields)
          /\ noteCause("cancel", ERROR_HTTP_REQUEST_CANCELLED, httpResponse)
     ELSE UNCHANGED <<teardownInitiated, requestTimer, responseTimer, clientRequest,
                      clientResponse, immediates, firstCause, droppedCauses>>
  /\ promisesCreated' =
       [promisesCreated EXCEPT !.cancelPromise = promisesCreated.cancelPromise + 1]
  /\ returned' = [op |-> "cancelRequest", value |-> "cancelPromise"]
  /\ UNCHANGED <<config, requestPromise, httpResponse, systemErrors, errorOccurred,
                 requestBodyBufferPointer, responseBodyBufferSize, responseBodyArrayOfBuffers, uncaught,
                 settleCalls, terminalAssignments>>

\* cancelRequest() in REQUESTING.  emit("cancelhttprequest") runs the listener
\* makeRequest() registered, which calls #teardown with
\* ERROR_HTTP_REQUEST_CANCELLED.
cancelRequestStart ==
  /\ clientState' = CANCELLING
  /\ cancelPromise' = Pending
  /\ IF clientRequest # null
     THEN /\ teardown(ERROR_HTTP_REQUEST_CANCELLED, Fields)
          /\ noteCause("cancel", ERROR_HTTP_REQUEST_CANCELLED, httpResponse)
     ELSE UNCHANGED <<teardownInitiated, requestTimer, responseTimer, clientRequest,
                      clientResponse, immediates, firstCause, droppedCauses>>
  /\ promisesCreated' =
       [promisesCreated EXCEPT !.cancelPromise = promisesCreated.cancelPromise + 1]
  /\ returned' = [op |-> "cancelRequest", value |-> "cancelPromise"]
  /\ UNCHANGED <<config, requestPromise, httpResponse, systemErrors, errorOccurred,
                 requestBodyBufferPointer, responseBodyBufferSize, responseBodyArrayOfBuffers, uncaught,
                 settleCalls, terminalAssignments>>

\* cancelRequest() without the check that the state is REQUESTING.
cancelRequest_unchecked ==
  IF clientState = CANCELLING
  THEN /\ returned' = [op |-> "cancelRequest", value |-> "cancelPromise"]
       /\ callLeavesInstanceAlone
  ELSE cancelRequestStart

\* cancelRequest() that signals the cancellation again when the state is
\* CANCELLING.
cancelRequest_reemits ==
  IF clientState \in {REQUESTING, CANCELLING}
  THEN cancelRequestStart
  ELSE /\ returned' = [op |-> "cancelRequest",
                       threw |-> ERROR_HTTP_REQUEST_CANCEL_UNAVAILABLE]
       /\ callLeavesInstanceAlone

\* cancelRequest().
cancelRequest ==
  IF clientState = CANCELLING
  THEN /\ returned' = [op |-> "cancelRequest", value |-> "cancelPromise"]
       /\ callLeavesInstanceAlone
  ELSE IF clientState # REQUESTING
  THEN /\ returned' = [op |-> "cancelRequest",
                       threw |-> ERROR_HTTP_REQUEST_CANCEL_UNAVAILABLE]
       /\ callLeavesInstanceAlone
  ELSE cancelRequestStart

\* ------------------------------------------------------- deferred teardown
\* The setImmediate callback rejecting with the error passed through
\* #convertSystemErrorToStandardError, whatever produced it.
teardownDeferred_convertsError ==
  /\ immediates # <<>>
  /\ Head(immediates).task = "teardown"
  /\ immediates' = Tail(immediates)
  /\ LET error == Head(immediates).error
     IN  IF error # null
         THEN /\ IF error = ERROR_HTTP_REQUEST_CANCELLED
                 THEN /\ cancelPromise' = Settle(cancelPromise, Resolved(TRUE))
                      /\ clientState' = CANCELLED
                 ELSE /\ clientState' = FAILED
                      /\ UNCHANGED cancelPromise
              /\ requestPromise' = Settle(requestPromise,
                                      Rejected(convertSystemErrorToStandardError(error)))
         ELSE /\ IF httpResponse # null
                 THEN /\ clientState' = FULFILLED
                      /\ requestPromise' = Settle(requestPromise, Resolved(httpResponse))
                 ELSE /\ clientState' = FAILED
                      /\ requestPromise' = Settle(requestPromise, Rejected(ERROR_UNKNOWN))
              /\ UNCHANGED cancelPromise
  /\ settleCalls' = settleCalls + 1
  /\ terminalAssignments' = terminalAssignments + 1
  /\ returned' = null
  /\ UNCHANGED <<config, clientRequest, clientResponse, httpResponse, systemErrors,
                 teardownInitiated, requestTimer, responseTimer, errorOccurred,
                 requestBodyBufferPointer, responseBodyBufferSize, responseBodyArrayOfBuffers, uncaught,
                 firstCause, droppedCauses, promisesCreated>>

\* The setImmediate callback resolving the promise of cancelRequest() for
\* every error, not only for ERROR_HTTP_REQUEST_CANCELLED.
teardownDeferred_acknowledgesAnyError ==
  /\ immediates # <<>>
  /\ Head(immediates).task = "teardown"
  /\ immediates' = Tail(immediates)
  /\ LET error == Head(immediates).error
     IN  IF error # null
         THEN /\ IF error = ERROR_HTTP_REQUEST_CANCELLED
                 THEN /\ cancelPromise' = Settle(cancelPromise, Resolved(TRUE))
                      /\ clientState' = CANCELLED
                 ELSE /\ clientState' = FAILED
                      /\ cancelPromise' =
                           IF cancelPromise = null THEN null
                           ELSE Settle(cancelPromise, Resolved(TRUE))
              /\ requestPromise' = Settle(requestPromise, Rejected(error))
         ELSE /\ IF httpResponse # null
                 THEN /\ clientState' = FULFILLED
                      /\ requestPromise' = Settle(requestPromise, Resolved(httpResponse))
                 ELSE /\ clientState' = FAILED
                      /\ requestPromise' = Settle(requestPromise, Rejected(ERROR_UNKNOWN))
              /\ UNCHANGED cancelPromise
  /\ settleCalls' = settleCalls + 1
  /\ terminalAssignments' = terminalAssignments + 1
  /\ returned' = null
  /\ UNCHANGED <<config, clientRequest, clientResponse, httpResponse, systemErrors,
                 teardownInitiated, requestTimer, responseTimer, errorOccurred,
                 requestBodyBufferPointer, responseBodyBufferSize, responseBodyArrayOfBuffers, uncaught,
                 firstCause, droppedCauses, promisesCreated>>

\* The setImmediate callback of #teardown(error).
teardownDeferred ==
  /\ immediates # <<>>
  /\ Head(immediates).task = "teardown"
  /\ immediates' = Tail(immediates)
  /\ LET error == Head(immediates).error
     IN  IF error # null
         THEN /\ IF error = ERROR_HTTP_REQUEST_CANCELLED
                 THEN /\ cancelPromise' = Settle(cancelPromise, Resolved(TRUE))
                      /\ clientState' = CANCELLED
                 ELSE /\ clientState' = FAILED
                      /\ UNCHANGED cancelPromise
              /\ requestPromise' = Settle(requestPromise, Rejected(error))
         ELSE /\ IF httpResponse # null
                 THEN /\ clientState' = FULFILLED
                      /\ requestPromise' = Settle(requestPromise, Resolved(httpResponse))
                 ELSE /\ clientState' = FAILED
                      /\ requestPromise' = Settle(requestPromise, Rejected(ERROR_UNKNOWN))
              /\ UNCHANGED cancelPromise
  /\ settleCalls' = settleCalls + 1
  /\ terminalAssignments' = terminalAssignments + 1
  /\ returned' = null
  /\ UNCHANGED <<config, clientRequest, clientResponse, httpResponse, systemErrors,
                 teardownInitiated, requestTimer, responseTimer, errorOccurred,
                 requestBodyBufferPointer, responseBodyBufferSize, responseBodyArrayOfBuffers, uncaught,
                 firstCause, droppedCauses, promisesCreated>>

\* ------------------------------------------------------ request body writing
requestBodyBufferSize == convertRequestBodyToBuffer.value.length

\* writeRequestBody with subarray(requestBodyBufferPointer, requestBodyChunkSize):
\* the end of the chunk taken as a length.
writeRequestBody_chunkEnd(request) ==
  LET remaining == requestBodyBufferSize - requestBodyBufferPointer
      chunks == (remaining + HighWaterMark - 1) \div HighWaterMark
  IN  IF remaining > 0 /\ errorOccurred
      THEN /\ clientRequest' = request
           /\ UNCHANGED <<requestBodyBufferPointer, requestTimer>>
      ELSE IF remaining = 0
      THEN /\ clientRequest' = [request EXCEPT !.ended = TRUE, !.endCalls = @ + 1]
           /\ UNCHANGED <<requestBodyBufferPointer, requestTimer>>
      ELSE \E k \in 1..chunks, writeRequestBodyResult \in BOOLEAN :
             /\ k < chunks => ~writeRequestBodyResult
             /\ request.destroyed => (k = 1 /\ ~writeRequestBodyResult)
             /\ requestBodyBufferPointer' =
                  Min(requestBodyBufferSize, requestBodyBufferPointer + k * HighWaterMark)
             /\ requestTimer' = refresh(requestTimer)
             /\ LET requestBodyBuffer == convertRequestBodyToBuffer.value
                    requestBodyChunk(i) ==
                      SubSeq(requestBodyBuffer.bytes,
                             requestBodyBufferPointer + (i - 1) * HighWaterMark + 1,
                             Min(requestBodyBufferSize, HighWaterMark))
                    written ==
                      request.written \o [i \in 1..k |-> requestBodyChunk(i)]
                IN  clientRequest' =
                      IF writeRequestBodyResult
                      THEN [request EXCEPT !.written = written, !.ended = TRUE,
                                           !.endCalls = @ + 1]
                      ELSE [request EXCEPT !.written = written, !.needDrain = TRUE,
                                           !.drainListeners = @ + 1]

\* One run of writeRequestBody, entered with the request as `request`.  The
\* transport decides what each write() returns: the run writes chunks until one
\* returns false (and waits for "drain") or the body is written (and calls
\* end()).  write() on a destroyed request returns false.
writeRequestBody(request) ==
  LET remaining == requestBodyBufferSize - requestBodyBufferPointer
      chunks == (remaining + HighWaterMark - 1) \div HighWaterMark
  IN  IF remaining > 0 /\ errorOccurred
      THEN /\ clientRequest' = request
           /\ UNCHANGED <<requestBodyBufferPointer, requestTimer>>
      ELSE IF remaining = 0
      THEN /\ clientRequest' = [request EXCEPT !.ended = TRUE, !.endCalls = @ + 1]
           /\ UNCHANGED <<requestBodyBufferPointer, requestTimer>>
      ELSE \E k \in 1..chunks, writeRequestBodyResult \in BOOLEAN :
             /\ k < chunks => ~writeRequestBodyResult
             /\ request.destroyed => (k = 1 /\ ~writeRequestBodyResult)
             /\ requestBodyBufferPointer' =
                  Min(requestBodyBufferSize, requestBodyBufferPointer + k * HighWaterMark)
             /\ requestTimer' = refresh(requestTimer)
             /\ LET requestBodyBuffer == convertRequestBodyToBuffer.value
                    requestBodyChunk(i) ==
                      SubSeq(requestBodyBuffer.bytes,
                             requestBodyBufferPointer + (i - 1) * HighWaterMark + 1,
                             Min(requestBodyBufferSize,
                                 requestBodyBufferPointer + i * HighWaterMark))
                    written ==
                      request.written \o [i \in 1..k |-> requestBodyChunk(i)]
                IN  clientRequest' =
                      IF writeRequestBodyResult
                      THEN [request EXCEPT !.written = written, !.ended = TRUE,
                                           !.endCalls = @ + 1]
                      ELSE [request EXCEPT !.written = written, !.needDrain = TRUE,
                                           !.drainListeners = @ + 1]

\* #sendRequestBody() that closes the write half at once, with a body too.
sendRequestBody_endsAtOnce(T) ==
  LET T1 == [T EXCEPT !.requestTimer = setTimeout]
  IN  IF requestBody # null
      THEN LET requestBodyBuffer == convertRequestBodyToBuffer
           IN  IF "threw" \in DOMAIN requestBodyBuffer
               THEN /\ teardown(requestBodyBuffer.threw, T1)
                    /\ noteCause("encode", requestBodyBuffer.threw, httpResponse)
               ELSE /\ requestTimer' = T1.requestTimer
                    /\ clientRequest' =
                         [T1.clientRequest EXCEPT
                            !.headers = "Content-Length" :> requestBodyBuffer.value.length,
                            !.ended = TRUE, !.endCalls = @ + 1]
                    /\ immediates' = Append(immediates, [task |-> "writeRequestBody"])
                    /\ UNCHANGED <<teardownInitiated, responseTimer, clientResponse,
                                   firstCause, droppedCauses>>
      ELSE /\ requestTimer' = T1.requestTimer
           /\ clientRequest' =
                [T1.clientRequest EXCEPT !.ended = TRUE, !.endCalls = @ + 1]
           /\ UNCHANGED <<teardownInitiated, responseTimer, clientResponse, immediates,
                          firstCause, droppedCauses>>

\* #sendRequestBody(), entered with the instance fields T.
sendRequestBody(T) ==
  LET T1 == [T EXCEPT !.requestTimer = setTimeout]
  IN  IF requestBody # null
      THEN LET requestBodyBuffer == convertRequestBodyToBuffer
           IN  IF "threw" \in DOMAIN requestBodyBuffer
               THEN /\ teardown(requestBodyBuffer.threw, T1)
                    /\ noteCause("encode", requestBodyBuffer.threw, httpResponse)
               ELSE /\ requestTimer' = T1.requestTimer
                    /\ clientRequest' =
                         [T1.clientRequest EXCEPT
                            !.headers = "Content-Length" :> requestBodyBuffer.value.length]
                    /\ immediates' = Append(immediates, [task |-> "writeRequestBody"])
                    /\ UNCHANGED <<teardownInitiated, responseTimer, clientResponse,
                                   firstCause, droppedCauses>>
      ELSE /\ requestTimer' = T1.requestTimer
           /\ clientRequest' =
                [T1.clientRequest EXCEPT !.ended = TRUE, !.endCalls = @ + 1]
           /\ UNCHANGED <<teardownInitiated, responseTimer, clientResponse, immediates,
                          firstCause, droppedCauses>>

\* The "socket" event with its listener registered by on(), as in the older
\* draft (src/http-client.js): the listener runs for every "socket" event.
requestSocket_on ==
  /\ clientRequest # null
  /\ ~clientRequest.destroyed
  /\ sendRequestBody([Fields EXCEPT !.clientRequest.socket = TRUE])
  /\ returned' = null
  /\ UNCHANGED <<clientState, config, requestPromise, cancelPromise, httpResponse,
                 systemErrors, errorOccurred, requestBodyBufferPointer,
                 responseBodyBufferSize, responseBodyArrayOfBuffers, uncaught, settleCalls,
                 terminalAssignments, promisesCreated>>

\* The "socket" event with #sendRequestBody() keeping the encoded string in
\* #requestBody, as in the older draft (src/http-client.js).
requestSocket_overwritesBody ==
  /\ clientRequest # null
  /\ ~clientRequest.socket
  /\ ~clientRequest.destroyed
  /\ sendRequestBody([Fields EXCEPT !.clientRequest.socket = TRUE])
  /\ requestBody' =
       IF requestBody # null /\ requestBody.type = "string"
       THEN BufferFrom(requestBody, requestBodyEncoding).value
       ELSE requestBody
  /\ returned' = null
  /\ UNCHANGED <<clientState, requestOptionsValid, requestBodyEncoding,
                 autoJSONResponseParse, constructorCall, constructed,
                 requestPromise, cancelPromise, httpResponse,
                 systemErrors, errorOccurred, requestBodyBufferPointer,
                 responseBodyBufferSize, responseBodyArrayOfBuffers, uncaught, settleCalls,
                 terminalAssignments, promisesCreated>>

\* The request's "socket" event.
requestSocket ==
  /\ clientRequest # null
  /\ ~clientRequest.socket
  /\ ~clientRequest.destroyed
  /\ sendRequestBody([Fields EXCEPT !.clientRequest.socket = TRUE])
  /\ returned' = null
  /\ UNCHANGED <<clientState, config, requestPromise, cancelPromise, httpResponse,
                 systemErrors, errorOccurred, requestBodyBufferPointer,
                 responseBodyBufferSize, responseBodyArrayOfBuffers, uncaught, settleCalls,
                 terminalAssignments, promisesCreated>>

\* The setImmediate callback of #sendRequestBody().
writeRequestBodyImmediate ==
  /\ immediates # <<>>
  /\ Head(immediates).task = "writeRequestBody"
  /\ immediates' = Tail(immediates)
  /\ writeRequestBody(clientRequest)
  /\ returned' = null
  /\ UNCHANGED <<clientState, config, requestPromise, cancelPromise, clientResponse,
                 httpResponse, systemErrors, teardownInitiated, responseTimer,
                 errorOccurred, responseBodyBufferSize, responseBodyArrayOfBuffers, uncaught, history>>

\* The "drain" event with writeRequestBody registered by on() instead of
\* once(): the listener stays registered when it runs.
requestDrain_on ==
  /\ clientRequest # null
  /\ clientRequest.needDrain
  /\ ~clientRequest.destroyed
  /\ writeRequestBody([clientRequest EXCEPT !.needDrain = FALSE])
  /\ returned' = null
  /\ UNCHANGED <<clientState, config, requestPromise, cancelPromise, clientResponse,
                 httpResponse, systemErrors, teardownInitiated, responseTimer,
                 errorOccurred, responseBodyBufferSize, responseBodyArrayOfBuffers, immediates, uncaught,
                 history>>

\* The request's "drain" event, after a write() that returned false: the
\* listener registered with once() is removed and run.
requestDrain ==
  /\ clientRequest # null
  /\ clientRequest.needDrain
  /\ ~clientRequest.destroyed
  /\ writeRequestBody([clientRequest EXCEPT !.needDrain = FALSE,
                                            !.drainListeners = 0])
  /\ returned' = null
  /\ UNCHANGED <<clientState, config, requestPromise, cancelPromise, clientResponse,
                 httpResponse, systemErrors, teardownInitiated, responseTimer,
                 errorOccurred, responseBodyBufferSize, responseBodyArrayOfBuffers, immediates, uncaught,
                 history>>

\* The "finish" listener without the clearing of the request timer.
requestFinish_keepsRequestTimer ==
  /\ clientRequest # null
  /\ clientRequest.ended
  /\ ~clientRequest.finished
  /\ ~clientRequest.destroyed
  /\ clientRequest' = [clientRequest EXCEPT !.finished = TRUE]
  /\ responseTimer' = setTimeout
  /\ returned' = null
  /\ UNCHANGED <<clientState, config, requestPromise, cancelPromise, clientResponse,
                 httpResponse, systemErrors, teardownInitiated, requestTimer,
                 errorOccurred, requestBodyBufferPointer, responseBodyBufferSize, responseBodyArrayOfBuffers,
                 immediates, uncaught, history>>

\* The request's "finish" event, after end() and the last byte written.
requestFinish ==
  /\ clientRequest # null
  /\ clientRequest.ended
  /\ ~clientRequest.finished
  /\ ~clientRequest.destroyed
  /\ clientRequest' = [clientRequest EXCEPT !.finished = TRUE]
  /\ requestTimer' = clearTimer(requestTimer)
  /\ responseTimer' = setTimeout
  /\ returned' = null
  /\ UNCHANGED <<clientState, config, requestPromise, cancelPromise, clientResponse,
                 httpResponse, systemErrors, teardownInitiated, errorOccurred,
                 requestBodyBufferPointer, responseBodyBufferSize, responseBodyArrayOfBuffers, immediates, uncaught, history>>

\* The request's "error" event: the listener of makeRequest(), then the one of
\* #sendRequestBody() when it has been registered.
requestError ==
  /\ clientRequest # null
  /\ Len(systemErrors) < MaxErrors
  /\ \E error \in SystemErrors :
       /\ systemErrors' = Append(systemErrors, error)
       /\ teardown(convertSystemErrorToStandardError(error), Fields)
       /\ noteCause("error", convertSystemErrorToStandardError(error), httpResponse)
  /\ errorOccurred' = (errorOccurred \/ clientRequest.socket)
  /\ returned' = null
  /\ UNCHANGED <<clientState, config, requestPromise, cancelPromise, httpResponse,
                 requestBodyBufferPointer, responseBodyBufferSize, responseBodyArrayOfBuffers, uncaught,
                 settleCalls, terminalAssignments, promisesCreated>>

\* ---------------------------------------------------------- response events
\* The request's "response" event.
requestResponse ==
  /\ clientRequest # null
  /\ clientRequest.socket
  /\ ~clientRequest.destroyed
  /\ clientResponse = null
  /\ \E statusCode \in StatusCodes, headers \in ResponseHeaders :
       clientResponse' = NewClientResponse(statusCode, headers)
  /\ returned' = null
  /\ UNCHANGED <<clientState, config, requestPromise, cancelPromise, clientRequest,
                 httpResponse, systemErrors, teardownInitiated, requestTimer,
                 responseTimer, errorOccurred, requestBodyBufferPointer,
                 responseBodyBufferSize, responseBodyArrayOfBuffers, immediates, uncaught, history>>

\* The "data" listener starting the response timer when there is none.
responseData_startsTimer ==
  /\ clientResponse # null
  /\ ~clientResponse.ended
  /\ ~clientResponse.destroyed
  /\ responseTimer' = IF responseTimer # null THEN refresh(responseTimer) ELSE setTimeout
  /\ \E body \in ResponseBodies :
       LET received == Len(responseBodyArrayOfBuffers)
           chunk == body[received + 1]
       IN  /\ Len(body) > received
           /\ SubSeq(body, 1, received) = responseBodyArrayOfBuffers
           /\ responseBodyArrayOfBuffers' = Append(responseBodyArrayOfBuffers, chunk)
           /\ responseBodyBufferSize' = responseBodyBufferSize + chunk.length
  /\ returned' = null
  /\ UNCHANGED <<clientState, config, requestPromise, cancelPromise, clientRequest,
                 clientResponse, httpResponse, systemErrors, teardownInitiated,
                 requestTimer, errorOccurred, requestBodyBufferPointer, immediates,
                 uncaught, history>>

\* The response's "data" event, with its chunk.
responseData ==
  /\ clientResponse # null
  /\ ~clientResponse.ended
  /\ ~clientResponse.destroyed
  /\ responseTimer' = refresh(responseTimer)
  /\ \E body \in ResponseBodies :
       LET received == Len(responseBodyArrayOfBuffers)
           chunk == body[received + 1]
       IN  /\ Len(body) > received
           /\ SubSeq(body, 1, received) = responseBodyArrayOfBuffers
           /\ responseBodyArrayOfBuffers' = Append(responseBodyArrayOfBuffers, chunk)
           /\ responseBodyBufferSize' = responseBodyBufferSize + chunk.length
  /\ returned' = null
  /\ UNCHANGED <<clientState, config, requestPromise, cancelPromise, clientRequest,
                 clientResponse, httpResponse, systemErrors, teardownInitiated,
                 requestTimer, errorOccurred, requestBodyBufferPointer, immediates,
                 uncaught, history>>

\* The "end" listener without the try/catch around JSON.parse: the SyntaxError
\* escapes the listener.
assembleResponse_parseUncaught(response, text) ==
  IF responseBodyBufferSize = 0
  THEN HTTPResponse(response.headers, Number(response.statusCode, 1),
                    String(response.statusMessage), undefined)
  ELSE LET responseBodyBuffer == BufferConcat(responseBodyArrayOfBuffers)
           responseContentType == getResponseContentType(response)
           charset == getResponseContentTypeCharset(response)
           responseContentTypeCharset ==
             IF charset # null THEN toLowerCase(charset.charset) ELSE "utf8"
       IN  IF \/ autoJSONResponseParse = FALSE
              \/ responseContentType # [type |-> "application/json"]
              \/ responseContentTypeCharset \notin BODY_ENCODINGS
           THEN HTTPResponse(response.headers, Number(response.statusCode, 1),
                             String(response.statusMessage), responseBodyBuffer)
           ELSE LET responseBodyJSON == JSONParse(text)
                IN  IF "threw" \in DOMAIN responseBodyJSON
                    THEN [threw |-> [name |-> responseBodyJSON.threw]]
                    ELSE HTTPResponse(response.headers, Number(response.statusCode, 1),
                                      String(response.statusMessage),
                                      responseBodyJSON.value)

\* What the "end" listener does with the accumulated body, decoded as `text`:
\* the HTTPResponse it assembles, the error it tears down with, or the
\* exception it lets escape.
assembleResponse(response, text) ==
  IF responseBodyBufferSize = 0
  THEN HTTPResponse(response.headers, Number(response.statusCode, 1),
                    String(response.statusMessage), undefined)
  ELSE LET responseBodyBuffer == BufferConcat(responseBodyArrayOfBuffers)
           responseContentType == getResponseContentType(response)
           charset == getResponseContentTypeCharset(response)
           responseContentTypeCharset ==
             IF charset # null THEN toLowerCase(charset.charset) ELSE "utf8"
       IN  IF \/ autoJSONResponseParse = FALSE
              \/ responseContentType # [type |-> "application/json"]
              \/ responseContentTypeCharset \notin BODY_ENCODINGS
           THEN HTTPResponse(response.headers, Number(response.statusCode, 1),
                             String(response.statusMessage), responseBodyBuffer)
           ELSE LET responseBodyJSON == JSONParse(text)
                IN  IF "threw" \in DOMAIN responseBodyJSON
                    THEN [teardown |-> ERROR_HTTP_RESPONSE_BODY_NOT_PARSEABLE_AS_JSON]
                    ELSE HTTPResponse(response.headers, Number(response.statusCode, 1),
                                      String(response.statusMessage),
                                      responseBodyJSON.value)

\* The "end" listener calling #teardown() also when `new HTTPResponse` has
\* thrown, as with the call in a finally block.
responseEnd_teardownInFinally ==
  /\ clientResponse # null
  /\ ~clientResponse.ended
  /\ ~clientResponse.destroyed
  /\ \E text \in {BufferConcat(responseBodyArrayOfBuffers).text} :
       LET T == [Fields EXCEPT !.responseTimer = clearTimer(responseTimer),
                               !.clientResponse.ended = TRUE,
                               !.clientResponse.body = [text |-> text]]
           assembled == assembleResponse(clientResponse, text)
       IN  IF "threw" \in DOMAIN assembled
           THEN /\ uncaught' = TRUE
                /\ teardown(null, T)
                /\ noteCause("end", null, httpResponse)
                /\ UNCHANGED httpResponse
           ELSE IF "teardown" \in DOMAIN assembled
           THEN /\ teardown(assembled.teardown, T)
                /\ noteCause("end", assembled.teardown, httpResponse)
                /\ UNCHANGED <<httpResponse, uncaught>>
           ELSE /\ httpResponse' = assembled.value
                /\ teardown(null, T)
                /\ noteCause("end", null, assembled.value)
                /\ UNCHANGED uncaught
  /\ responseBodyArrayOfBuffers' =
       IF responseBodyBufferSize = 0 THEN responseBodyArrayOfBuffers ELSE null
  /\ returned' = null
  /\ UNCHANGED <<clientState, config, requestPromise, cancelPromise, systemErrors,
                 errorOccurred, requestBodyBufferPointer, responseBodyBufferSize,
                 settleCalls, terminalAssignments, promisesCreated>>

\* The response's "end" event.
responseEnd ==
  /\ clientResponse # null
  /\ ~clientResponse.ended
  /\ ~clientResponse.destroyed
  /\ \E text \in {BufferConcat(responseBodyArrayOfBuffers).text} :
       LET T == [Fields EXCEPT !.responseTimer = clearTimer(responseTimer),
                               !.clientResponse.ended = TRUE,
                               !.clientResponse.body = [text |-> text]]
           assembled == assembleResponse(clientResponse, text)
       IN  IF "threw" \in DOMAIN assembled
           THEN /\ uncaught' = TRUE
                /\ requestTimer' = T.requestTimer
                /\ responseTimer' = T.responseTimer
                /\ clientRequest' = T.clientRequest
                /\ clientResponse' = T.clientResponse
                /\ UNCHANGED <<httpResponse, teardownInitiated, immediates, firstCause,
                               droppedCauses>>
           ELSE IF "teardown" \in DOMAIN assembled
           THEN /\ teardown(assembled.teardown, T)
                /\ noteCause("end", assembled.teardown, httpResponse)
                /\ UNCHANGED <<httpResponse, uncaught>>
           ELSE /\ httpResponse' = assembled.value
                /\ teardown(null, T)
                /\ noteCause("end", null, assembled.value)
                /\ UNCHANGED uncaught
  /\ responseBodyArrayOfBuffers' =
       IF responseBodyBufferSize = 0 THEN responseBodyArrayOfBuffers ELSE null
  /\ returned' = null
  /\ UNCHANGED <<clientState, config, requestPromise, cancelPromise, systemErrors,
                 errorOccurred, requestBodyBufferPointer, responseBodyBufferSize,
                 settleCalls, terminalAssignments, promisesCreated>>

\* The response's "error" event.
responseError ==
  /\ clientResponse # null
  /\ ~clientResponse.ended
  /\ ~clientResponse.destroyed
  /\ Len(systemErrors) < MaxErrors
  /\ \E error \in SystemErrors :
       /\ systemErrors' = Append(systemErrors, error)
       /\ teardown(convertSystemErrorToStandardError(error), Fields)
       /\ noteCause("error", convertSystemErrorToStandardError(error), httpResponse)
  /\ returned' = null
  /\ UNCHANGED <<clientState, config, requestPromise, cancelPromise, httpResponse,
                 errorOccurred, requestBodyBufferPointer, responseBodyBufferSize, responseBodyArrayOfBuffers,
                 uncaught, settleCalls, terminalAssignments, promisesCreated>>

\* ------------------------------------------------------------ timer callbacks
\* The callback of the timer #sendRequestBody() starts.
requestTimerExpires ==
  /\ Due(requestTimer)
  /\ teardown(ERROR_HTTP_REQUEST_TIMED_OUT, [Fields EXCEPT !.requestTimer.armed = FALSE])
  /\ noteCause("timer", ERROR_HTTP_REQUEST_TIMED_OUT, httpResponse)
  /\ returned' = null
  /\ UNCHANGED <<clientState, config, requestPromise, cancelPromise, httpResponse,
                 systemErrors, errorOccurred, requestBodyBufferPointer,
                 responseBodyBufferSize, responseBodyArrayOfBuffers, uncaught, settleCalls,
                 terminalAssignments, promisesCreated>>

\* The callback of the response timer as the older draft has it
\* (src/http-client.js), with the request's time-out error.
responseTimerExpires_olderDraft ==
  /\ Due(responseTimer)
  /\ teardown(ERROR_HTTP_REQUEST_TIMED_OUT, [Fields EXCEPT !.responseTimer.armed = FALSE])
  /\ noteCause("timer", ERROR_HTTP_REQUEST_TIMED_OUT, httpResponse)
  /\ returned' = null
  /\ UNCHANGED <<clientState, config, requestPromise, cancelPromise, httpResponse,
                 systemErrors, errorOccurred, requestBodyBufferPointer,
                 responseBodyBufferSize, responseBodyArrayOfBuffers, uncaught, settleCalls, terminalAssignments,
                 promisesCreated>>

\* The callback of the timer the "finish" listener starts.
responseTimerExpires ==
  /\ Due(responseTimer)
  /\ teardown(ERROR_HTTP_RESPONSE_TIMED_OUT, [Fields EXCEPT !.responseTimer.armed = FALSE])
  /\ noteCause("timer", ERROR_HTTP_RESPONSE_TIMED_OUT, httpResponse)
  /\ returned' = null
  /\ UNCHANGED <<clientState, config, requestPromise, cancelPromise, httpResponse,
                 systemErrors, errorOccurred, requestBodyBufferPointer,
                 responseBodyBufferSize, responseBodyArrayOfBuffers, uncaught, settleCalls,
                 terminalAssignments, promisesCreated>>

\* One unit of time passes while a countdown runs, and no callback runs.
tick ==
  /\ \/ Armed(requestTimer) /\ requestTimer.remaining > 0
     \/ Armed(responseTimer) /\ responseTimer.remaining > 0
  /\ requestTimer' = elapse(requestTimer)
  /\ responseTimer' = elapse(responseTimer)
  /\ returned' = null
  /\ UNCHANGED <<clientState, config, requestPromise, cancelPromise, clientRequest,
                 clientResponse, httpResponse, systemErrors, teardownInitiated,
                 errorOccurred, requestBodyBufferPointer, responseBodyBufferSize, responseBodyArrayOfBuffers,
                 immediates, uncaught, history>>

\* ---------------------------------------------------------- specifications
Next ==
  \/ makeRequest
  \/ cancelRequest
  \/ requestSocket
  \/ writeRequestBodyImmediate
  \/ requestDrain
  \/ requestFinish
  \/ requestError
  \/ requestResponse
  \/ responseData
  \/ responseEnd
  \/ responseError
  \/ tick
  \/ requestTimerExpires
  \/ responseTimerExpires
  \/ teardownDeferred

Spec == Init /\ [][Next]_vars

\* The event loop runs every setImmediate callback and every armed timer's
\* callback when its time has passed; what the transport and the caller do is
\* up to them.
FairSpec ==
  /\ Spec
  /\ WF_vars(teardownDeferred)
  /\ WF_vars(writeRequestBodyImmediate)
  /\ WF_vars(tick)
  /\ WF_vars(requestTimerExpires)
  /\ WF_vars(responseTimerExpires)

\* The same for the instances whose request options http.request() accepts.
InitAccepted == Init /\ requestOptionsValid

FairAcceptedSpec ==
  /\ InitAccepted
  /\ [][Next]_vars
  /\ WF_vars(teardownDeferred)
  /\ WF_vars(writeRequestBodyImmediate)
  /\ WF_vars(tick)
  /\ WF_vars(requestTimerExpires)
  /\ WF_vars(responseTimerExpires)

\* ------------------------------------------------------- the constructors
\* Before `new` has returned there is no instance; the variables of the
\* instance are the field initializers (#clientState = null, as a string).
InitConstructor ==
  /\ clientState = "null"
  /\ requestOptionsValid = TRUE
  /\ requestBody = null
  /\ requestBodyEncoding = "utf8"
  /\ autoJSONResponseParse = FALSE
  /\ \/ \E url \in URLArguments, method \in MethodOptions, headers \in HeadersOptions,
            timeout \in TimeoutOptions, body \in BodyOptions,
            bodyEncoding \in BodyEncodingOptions,
            autoJSON \in AutoJSONResponseParseOptions :
          constructorCall =
            [class |-> "HTTPClient",
             arguments |->
               [url |-> url,
                options |->
                  [method |-> method, headers |-> headers, timeout |-> timeout,
                   body |-> body, bodyEncoding |-> bodyEncoding,
                   autoJSONResponseParse |-> autoJSON]]]
     \/ \E headers \in HeadersArguments, statusCode \in StatusCodeArguments,
            statusMessage \in StatusMessageArguments, body \in BodyArguments :
          constructorCall =
            [class |-> "HTTPResponse",
             arguments |->
               [headers |-> headers, statusCode |-> statusCode,
                statusMessage |-> statusMessage, body |-> body]]
  /\ constructed = null
  /\ InitInstance

\* What a `new` expression leaves alone: every field of the running instance.
newLeavesInstanceAlone ==
  UNCHANGED <<clientState, requestOptionsValid, requestBody, requestBodyEncoding,
              autoJSONResponseParse, constructorCall, requestPromise, cancelPromise,
              clientRequest, clientResponse, httpResponse, systemErrors,
              teardownInitiated, requestTimer, responseTimer, errorOccurred,
              requestBodyBufferPointer, responseBodyBufferSize, responseBodyArrayOfBuffers, immediates,
              returned, uncaught, history>>

\* new HTTPClient(url, options).
newHTTPClient ==
  /\ constructorCall # null
  /\ constructorCall.class = "HTTPClient"
  /\ constructed = null
  /\ constructed' =
       HTTPClient(constructorCall.arguments.url, constructorCall.arguments.options)
  /\ newLeavesInstanceAlone

\* new HTTPResponse(headers, statusCode, statusMessage, body).
newHTTPResponse ==
  /\ constructorCall # null
  /\ constructorCall.class = "HTTPResponse"
  /\ constructed = null
  /\ constructed' =
       HTTPResponse(constructorCall.arguments.headers,
                    constructorCall.arguments.statusCode,
                    constructorCall.arguments.statusMessage,
                    constructorCall.arguments.body)
  /\ newLeavesInstanceAlone

NextConstructor == newHTTPClient \/ newHTTPResponse

ConstructorSpec == InitConstructor /\ [][NextConstructor]_vars

\* -------------------------------------------------------------------- claims
\* What the history says the transport and the timers have delivered.
timerFired ==
  \/ "timer" \in droppedCauses
  \/ (firstCause # null /\ firstCause.origin = "timer")

responseEnded == clientResponse # null /\ clientResponse.ended

\* The state diagram of the README.
StateGraph ==
  {<<CREATED, REQUESTING>>, <<REQUESTING, FULFILLED>>, <<REQUESTING, FAILED>>,
   <<REQUESTING, CANCELLING>>, <<CANCELLING, CANCELLED>>}

\* C1: every change of the state is an edge of the state diagram: CREATED ->
\* REQUESTING -> FULFILLED | FAILED | CANCELLING, CANCELLING -> CANCELLED, and
\* nothing follows FULFILLED, CANCELLED or FAILED.
C1_StateSequenceIsPath ==
  [][clientState' # clientState => <<clientState, clientState'>> \in StateGraph]_vars

\* C2: once cancelRequest() has been accepted (the state is CANCELLING), the
\* cancel-future eventually resolves with true, the perform-future rejects with
\* ERROR_HTTP_REQUEST_CANCELLED and the state becomes CANCELLED.
C2_AcceptedCancelCompletes ==
  (clientState = CANCELLING)
    ~> (/\ cancelPromise = Resolved(TRUE)
        /\ requestPromise = Rejected(ERROR_HTTP_REQUEST_CANCELLED)
        /\ clientState = CANCELLED)

\* C3: after makeRequest() has been accepted, a run in which the transport has
\* delivered the response end or an error event, or a timer has expired,
\* eventually settles the perform-future in a terminal state.
C3_DeliveredRunSettles ==
  (clientState # CREATED /\ (responseEnded \/ Len(systemErrors) > 0 \/ timerFired))
    ~> (Settled(requestPromise) /\ clientState \in Terminal)

\* C4: when the perform-future is settled, the state is FULFILLED iff it
\* resolved with the HTTPResponse, CANCELLED iff it rejected with
\* ERROR_HTTP_REQUEST_CANCELLED, and FAILED iff it rejected with another error.
C4_OutcomeMatchesState ==
  Settled(requestPromise) =>
    /\ clientState = FULFILLED <=>
         (httpResponse # null /\ requestPromise = Resolved(httpResponse))
    /\ clientState = CANCELLED <=>
         requestPromise = Rejected(ERROR_HTTP_REQUEST_CANCELLED)
    /\ clientState = FAILED <=>
         (/\ requestPromise.status = "rejected"
          /\ requestPromise # Rejected(ERROR_HTTP_REQUEST_CANCELLED))

\* C5: the perform-future is settled at most once and a terminal state is
\* assigned at most once.
C5_SettledAtMostOnce == settleCalls <= 1 /\ terminalAssignments <= 1

\* A run in which #teardown was invoked more than once and the future settled.
C5_Witness == settleCalls = 1 /\ terminalAssignments = 1 /\ droppedCauses # {}

\* The outcome and the terminal state the first #teardown invocation stands for.
outcomeOf(cause) ==
  IF cause.error # null THEN Rejected(cause.error)
  ELSE IF cause.httpResponse # null THEN Resolved(cause.httpResponse)
  ELSE Rejected(ERROR_UNKNOWN)

terminalOf(cause) ==
  IF cause.error = ERROR_HTTP_REQUEST_CANCELLED THEN CANCELLED
  ELSE IF cause.error = null /\ cause.httpResponse # null THEN FULFILLED
  ELSE FAILED

\* C6: the outcome of the perform-future and the terminal state are those of
\* the first #teardown invocation, whatever causes come later; until the
\* future settles the state is not terminal.
C6_FirstCauseWins ==
  firstCause # null =>
    IF Settled(requestPromise)
    THEN requestPromise = outcomeOf(firstCause) /\ clientState = terminalOf(firstCause)
    ELSE clientState \notin Terminal

\* A successful response end came first, a cancellation and an error were
\* dropped, and the future has resolved.
C6_Witness ==
  /\ firstCause # null
  /\ firstCause.origin = "end"
  /\ firstCause.error = null
  /\ {"cancel", "error"} \subseteq droppedCauses
  /\ requestPromise.status = "resolved"

\* C7: at most one of the request timer and the response timer is armed.
C7_TimersExclusive == ~(Armed(requestTimer) /\ Armed(responseTimer))

\* The request timer ran while a body was written and "finish" has swapped it
\* for the response timer.
C7_Witness ==
  /\ Armed(responseTimer)
  /\ requestTimer = null
  /\ requestBodyBufferPointer > 0
  /\ ~teardownInitiated

C9_MakeRequestUnavailable ==
  [][(clientState \in {CANCELLING, FULFILLED, CANCELLED, FAILED} /\ makeRequest) =>
       /\ returned' = [op |-> "makeRequest",
                       threw |-> ERROR_HTTP_REQUEST_MAKE_REQUEST_UNAVAILABLE]
       /\ UNCHANGED <<clientState, config, requestPromise, cancelPromise, clientRequest,
                      clientResponse, httpResponse, systemErrors, teardownInitiated,
                      requestTimer, responseTimer, errorOccurred,
                      requestBodyBufferPointer, responseBodyBufferSize, responseBodyArrayOfBuffers, immediates,
                      uncaught, history>>]_vars

\* makeRequest() has just thrown while a cancellation was in progress.
C9_Witness ==
  /\ returned = [op |-> "makeRequest",
                 threw |-> ERROR_HTTP_REQUEST_MAKE_REQUEST_UNAVAILABLE]
  /\ clientState = CANCELLING
  /\ requestPromise = Pending

\* C10: cancelRequest() in CREATED, FULFILLED, CANCELLED or FAILED throws
\* ERROR_HTTP_REQUEST_CANCEL_UNAVAILABLE, initiates no teardown and changes
\* neither the state nor the futures.
C10_CancelRequestUnavailable ==
  [][(clientState \in {CREATED, FULFILLED, CANCELLED, FAILED} /\ cancelRequest) =>
       /\ returned' = [op |-> "cancelRequest",
                       threw |-> ERROR_HTTP_REQUEST_CANCEL_UNAVAILABLE]
       /\ UNCHANGED <<clientState, config, requestPromise, cancelPromise, clientRequest,
                      clientResponse, httpResponse, systemErrors, teardownInitiated,
                      requestTimer, responseTimer, errorOccurred,
                      requestBodyBufferPointer, responseBodyBufferSize, responseBodyArrayOfBuffers, immediates,
                      uncaught, history>>]_vars

\* cancelRequest() has just thrown on a fulfilled instance.
C10_Witness ==
  /\ returned = [op |-> "cancelRequest",
                 threw |-> ERROR_HTTP_REQUEST_CANCEL_UNAVAILABLE]
  /\ clientState = FULFILLED
  /\ requestPromise.status = "resolved"
  /\ cancelPromise = null

\* C11: a makeRequest() call made while the state is REQUESTING returns the
\* promise object the first call created (#requestPromise has held one object
\* only) and changes nothing: no new transport request, no timer, no listener's
\* state, not the state of the client.
C11_MakeRequestIdempotent ==
  [][/\ promisesCreated'.requestPromise <= 1
     /\ (clientState = REQUESTING /\ makeRequest) =>
          /\ returned' = [op |-> "makeRequest", value |-> "requestPromise"]
          /\ UNCHANGED <<clientState, config, requestPromise, cancelPromise,
                         clientRequest, clientResponse, httpResponse, systemErrors,
                         teardownInitiated, requestTimer, responseTimer,
                         errorOccurred, requestBodyBufferPointer,
                         responseBodyBufferSize, responseBodyArrayOfBuffers, immediates, uncaught, history>>]_vars

\* makeRequest() has just returned again, after the "socket" event has started
\* the request timer.
C11_Witness ==
  /\ returned = [op |-> "makeRequest", value |-> "requestPromise"]
  /\ clientState = REQUESTING
  /\ clientRequest # null
  /\ clientRequest.socket
  /\ Armed(requestTimer)
  /\ requestPromise = Pending

\* C12: a cancelRequest() call made while the state is CANCELLING returns the
\* promise object the first call created (#cancelPromise has held one object
\* only) and changes nothing: it invokes no teardown again and leaves the state
\* alone.
C12_CancelRequestIdempotent ==
  [][/\ promisesCreated'.cancelPromise <= 1
     /\ (clientState = CANCELLING /\ cancelRequest) =>
          /\ returned' = [op |-> "cancelRequest", value |-> "cancelPromise"]
          /\ UNCHANGED <<clientState, config, requestPromise, cancelPromise,
                         clientRequest, clientResponse, httpResponse, systemErrors,
                         teardownInitiated, requestTimer, responseTimer,
                         errorOccurred, requestBodyBufferPointer,
                         responseBodyBufferSize, responseBodyArrayOfBuffers, immediates, uncaught, history>>]_vars

\* cancelRequest() has just returned again: the cancellation was the first
\* teardown cause and an error event has been dropped since.
C12_Witness ==
  /\ returned = [op |-> "cancelRequest", value |-> "cancelPromise"]
  /\ clientState = CANCELLING
  /\ firstCause # null
  /\ firstCause.origin = "cancel"
  /\ "error" \in droppedCauses
  /\ cancelPromise = Pending

\* C13: the cancel-future is pending while the state is REQUESTING or
\* CANCELLING; the state is CANCELLING when cancelRequest() returns it; and
\* whenever it is resolved the state is CANCELLED and the perform-future is
\* rejected with ERROR_HTTP_REQUEST_CANCELLED.
C13_CancelResolvesLast ==
  /\ (cancelPromise # null /\ clientState \in {REQUESTING, CANCELLING}) =>
       cancelPromise = Pending
  /\ returned = [op |-> "cancelRequest", value |-> "cancelPromise"] =>
       clientState = CANCELLING
  /\ (cancelPromise # null /\ cancelPromise.status = "resolved") =>
       /\ clientState = CANCELLED
       /\ requestPromise = Rejected(ERROR_HTTP_REQUEST_CANCELLED)

\* The cancel-future has resolved.
C13_Witness ==
  /\ cancelPromise = Resolved(TRUE)
  /\ clientState = CANCELLED
  /\ firstCause # null
  /\ firstCause.origin = "cancel"

\* C14: in CREATED no transport request is open and no timer is armed, and
\* makeRequest() called in CREATED sets the state to REQUESTING and returns a
\* promise that is pending when the call returns.
C14_CreatedThenRequesting ==
  [][clientState = CREATED =>
       /\ clientRequest = null
       /\ requestTimer = null
       /\ responseTimer = null
       /\ makeRequest =>
            /\ clientState' = REQUESTING
            /\ returned' = [op |-> "makeRequest", value |-> "requestPromise"]
            /\ requestPromise' = Pending]_vars

\* C15: once a response with a status code of 100..599 and a non-empty body
\* has ended: if autoJSONResponseParse
\* is true and the Content-Type is application/json with a recognized charset
\* (utf8 when absent), then for every valid JSON text the HTTPResponse is
\* assembled with the decoded value as body and the perform-future resolves with
\* it; in every other case the HTTPResponse is assembled with the raw buffer.
C15_AutoParse ==
  (/\ responseEnded
   /\ responseBodyBufferSize > 0
   /\ clientResponse.statusCode \in 100..599) =>
    LET applies ==
          /\ autoJSONResponseParse
          /\ "content-type" \in DOMAIN clientResponse.headers
          /\ clientResponse.headers["content-type"] \in
               {"application/json", "application/json; charset=UTF-16LE"}
        decoded ==
          [typeof |-> IF clientResponse.body.text = "42" THEN "number" ELSE "object",
           json |-> clientResponse.body.text]
        raw ==
          [type |-> "Buffer", length |-> responseBodyBufferSize,
           text |-> clientResponse.body.text]
        delivered(body) ==
          /\ httpResponse # null
          /\ httpResponse.body = body
          /\ httpResponse.statusCode = clientResponse.statusCode
          /\ firstCause # null
          /\ firstCause.origin = "end"
          /\ firstCause.error = null
          /\ Settled(requestPromise) => requestPromise = Resolved(httpResponse)
    IN  IF applies
        THEN clientResponse.body.text \in {"{}", "null", "42"} => delivered(decoded)
        ELSE delivered(raw)

\* C16: once a response has ended with zero accumulated body bytes, the
\* HTTPResponse is assembled without a body, whatever the Content-Type and
\* autoJSONResponseParse are, and the perform-future resolves with it in state
\* FULFILLED.
C16_EmptyBody ==
  (responseEnded /\ responseBodyBufferSize = 0) =>
    /\ httpResponse # null
    /\ httpResponse.body = undefined
    /\ httpResponse.statusCode = clientResponse.statusCode
    /\ httpResponse.headers = clientResponse.headers
    /\ firstCause # null
    /\ firstCause.origin = "end"
    /\ firstCause.error = null
    /\ IF Settled(requestPromise)
       THEN requestPromise = Resolved(httpResponse) /\ clientState = FULFILLED
       ELSE clientState \in {REQUESTING, CANCELLING}

\* C17: once a response with a non-empty body that is not valid JSON has ended
\* while auto-parse applies (option true, application/json, recognized
\* charset), no HTTPResponse is assembled and the perform-future rejects with
\* ERROR_HTTP_RESPONSE_BODY_NOT_PARSEABLE_AS_JSON in state FAILED.
C17_NotParseable ==
  (/\ responseEnded
   /\ responseBodyBufferSize > 0
   /\ autoJSONResponseParse
   /\ "content-type" \in DOMAIN clientResponse.headers
   /\ clientResponse.headers["content-type"] \in
        {"application/json", "application/json; charset=UTF-16LE"}
   /\ clientResponse.body.text \in {"{bad", "{}42"}) =>
    /\ httpResponse = null
    /\ ~uncaught
    /\ firstCause # null
    /\ firstCause.origin = "end"
    /\ firstCause.error = ERROR_HTTP_RESPONSE_BODY_NOT_PARSEABLE_AS_JSON
    /\ IF Settled(requestPromise)
       THEN /\ requestPromise =
                 Rejected(ERROR_HTTP_RESPONSE_BODY_NOT_PARSEABLE_AS_JSON)
            /\ clientState = FAILED
       ELSE clientState \in {REQUESTING, CANCELLING}

\* A response with Content-Type application/json; charset=UTF-16LE and a body
\* that is not JSON has ended, and the perform-future has rejected.
C17_Witness ==
  /\ responseEnded
  /\ "content-type" \in DOMAIN clientResponse.headers
  /\ clientResponse.headers["content-type"] = "application/json; charset=UTF-16LE"
  /\ clientResponse.body.text = "{}42"
  /\ requestPromise = Rejected(ERROR_HTTP_RESPONSE_BODY_NOT_PARSEABLE_AS_JSON)
  /\ clientState = FAILED

\* C18: with a request body object that has no JSON serialization, the
\* instance is constructed (state CREATED), no body chunk is written, no
\* Content-Length is set and end() is never called, the "socket" event invokes
\* the teardown, and when that teardown is the first one the perform-future
\* rejects with ERROR_HTTP_REQUEST_BODY_OBJECT_NOT_SERIALIZABLE in state FAILED.
C18_NotSerializable ==
  (/\ requestBody # null
   /\ requestBody.type = "object"
   /\ requestBody.stringify \in {"throws", "undefined"}) =>
    /\ clientRequest # null =>
         /\ clientRequest.written = <<>>
         /\ clientRequest.headers = NoParameters
         /\ ~clientRequest.ended
         /\ clientRequest.socket => teardownInitiated
    /\ (firstCause # null /\ firstCause.origin = "encode") =>
         /\ firstCause.error = ERROR_HTTP_REQUEST_BODY_OBJECT_NOT_SERIALIZABLE
         /\ IF Settled(requestPromise)
            THEN /\ requestPromise =
                      Rejected(ERROR_HTTP_REQUEST_BODY_OBJECT_NOT_SERIALIZABLE)
                 /\ clientState = FAILED
            ELSE clientState \in {REQUESTING, CANCELLING}

C20_BodyWritten ==
  clientRequest # null =>
    LET written == clientRequest.written
        concatenated[i \in 0..Len(written)] ==
          IF i = 0 THEN <<>> ELSE concatenated[i - 1] \o written[i]
        bytes == concatenated[Len(written)]
        encodable ==
          /\ requestBody # null
          /\ requestBody.type = "object" => requestBody.stringify = "{}"
        expected ==
          CASE requestBody.type = "Buffer" -> requestBody.bytes
            [] requestBody.type = "object" -> <<123, 125>>
            [] requestBody.type = "string" /\ requestBodyEncoding = "utf8" ->
                 <<195, 169>>
            [] requestBody.type = "string" /\ requestBodyEncoding = "latin1" ->
                 <<233>>
            [] requestBody.type = "string" /\ requestBodyEncoding = "hex" -> <<>>
    IN  /\ \A i \in DOMAIN written : Len(written[i]) \in 1..HighWaterMark
        /\ IF encodable
           THEN /\ Len(bytes) <= Len(expected)
                /\ bytes = SubSeq(expected, 1, Len(bytes))
                /\ clientRequest.ended => bytes = expected
                /\ clientRequest.headers =
                     IF clientRequest.socket
                     THEN "Content-Length" :> Len(expected)
                     ELSE NoParameters
           ELSE written = <<>> /\ clientRequest.headers = NoParameters

\* A Buffer body longer than the high-water mark has been written in several
\* chunks and end() has been called.
C20_Witness ==
  /\ clientRequest # null
  /\ clientRequest.ended
  /\ requestBody # null
  /\ requestBody.type = "Buffer"
  /\ Len(clientRequest.written) >= 2
  /\ "Content-Length" \in DOMAIN clientRequest.headers
  /\ clientRequest.headers["Content-Length"] = requestBody.length

C22_ResponseValidates ==
  (constructed # null /\ constructorCall.class = "HTTPResponse") =>
    LET a == constructorCall.arguments
        violated ==
          << a.headers \in {undefined, [typeof |-> "string", string |-> "x"]},
             a.statusCode \in
               {undefined, [typeof |-> "string", string |-> "200"],
                [typeof |-> "number", numerator |-> 401, denominator |-> 2]},
             a.statusCode \in
               {[typeof |-> "number", numerator |-> 99, denominator |-> 1],
                [typeof |-> "number", numerator |-> 600, denominator |-> 1]},
             a.statusMessage \in
               {undefined, [typeof |-> "number", numerator |-> 1, denominator |-> 1]},
             a.body \in
               {[typeof |-> "number", numerator |-> 42, denominator |-> 1],
                [typeof |-> "string", string |-> "text"]} >>
        kinds ==
          << "ERROR_HTTP_RESPONSE_HEADERS_TYPE_INVALID",
             "ERROR_HTTP_RESPONSE_STATUS_CODE_TYPE_INVALID",
             "ERROR_HTTP_RESPONSE_STATUS_CODE_OUT_OF_BOUNDS",
             "ERROR_HTTP_RESPONSE_STATUS_MESSAGE_TYPE_INVALID",
             "ERROR_HTTP_RESPONSE_BODY_TYPE_INVALID" >>
        rules == {i \in 1..5 : violated[i]}
    IN  IF rules # {}
        THEN LET first == CHOOSE i \in rules : \A j \in rules : i <= j
             IN  constructed = [threw |-> [name |-> kinds[first]]]
        ELSE /\ "value" \in DOMAIN constructed
             /\ constructed.value.headers = a.headers
             /\ constructed.value.statusCode \in {100, 200, 599}
             /\ constructed.value.statusCode = a.statusCode.numerator
             /\ constructed.value.statusMessage = "OK"
             /\ constructed.value.body = a.body

\* The constructor was called with the status code 600, a status message that
\* is a number and a body that is a string, and threw for the status code.
C22_Witness ==
  /\ constructed = [threw |-> ERROR_HTTP_RESPONSE_STATUS_CODE_OUT_OF_BOUNDS]
  /\ constructorCall.class = "HTTPResponse"
  /\ constructorCall.arguments.statusCode =
       [typeof |-> "number", numerator |-> 600, denominator |-> 1]
  /\ constructorCall.arguments.statusMessage =
       [typeof |-> "number", numerator |-> 1, denominator |-> 1]
  /\ constructorCall.arguments.body = [typeof |-> "string", string |-> "text"]

\* C23: once #teardown has run, neither the request timer nor the response
\* timer is armed at any later moment, whatever the transport delivers
\* afterwards ("socket", "finish"); in particular both are disarmed in every
\* terminal state.
C23_NoTimerAfterTeardown ==
  teardownInitiated => (~Armed(requestTimer) /\ ~Armed(responseTimer))

\* C24: once makeRequest() has been accepted, the perform-future is pending if
\* and only if the state is REQUESTING or CANCELLING: the future is never
\* settled while the state is still REQUESTING or CANCELLING, and never pending
\* in a terminal state.
C24_PendingIffInFlight ==
  requestPromise # null =>
    (requestPromise = Pending <=> clientState \in {REQUESTING, CANCELLING})

\* C25: the step that initiates the teardown clears both timers, destroys the
\* request and the response (if any) when the cause is an error, defers the
\* settlement with one setImmediate and leaves the perform-future pending and
\* the state REQUESTING or CANCELLING; while the deferred step is pending the
\* future stays pending, the state stays REQUESTING or CANCELLING and no event
\* changes the recorded cause; and only the deferred step settles the future,
\* with the outcome of that cause.
C25_TeardownDefersSettlement ==
  [][LET deferred == {i \in DOMAIN immediates : immediates[i].task = "teardown"}
     IN  /\ (~teardownInitiated /\ teardownInitiated') =>
              /\ requestPromise = Pending
              /\ requestPromise' = Pending
              /\ settleCalls' = settleCalls
              /\ clientState' \in {REQUESTING, CANCELLING}
              /\ requestTimer' = null
              /\ responseTimer' = null
              /\ firstCause = null
              /\ firstCause' # null
              /\ firstCause'.error # null =>
                   /\ clientRequest'.destroyed
                   /\ clientResponse' # null => clientResponse'.destroyed
              /\ deferred = {}
              /\ immediates' =
                   Append(immediates, [task |-> "teardown", error |-> firstCause'.error])
         /\ deferred # {} =>
              /\ teardownInitiated
              /\ requestPromise = Pending
              /\ clientState \in {REQUESTING, CANCELLING}
              /\ Cardinality(deferred) = 1
              /\ firstCause' = firstCause
              /\ \A i \in deferred : immediates[i].error = firstCause.error
         /\ (requestPromise = Pending /\ requestPromise' # Pending) =>
              /\ immediates # <<>>
              /\ Head(immediates).task = "teardown"
              /\ immediates' = Tail(immediates)
              /\ requestPromise' = outcomeOf(firstCause)
              /\ clientState' = terminalOf(firstCause)]_vars

\* The teardown was initiated by a timer, a response error and a cancellation
\* have been delivered since, and the deferred step has not run yet.
C25_Witness ==
  /\ teardownInitiated
  /\ immediates # <<>>
  /\ Head(immediates).task = "teardown"
  /\ firstCause # null
  /\ firstCause.origin = "timer"
  /\ {"error", "cancel"} \subseteq droppedCauses
  /\ requestPromise = Pending
  /\ clientState = CANCELLING

\* C26: once a teardown cause with an error has been recorded (a timer expiry,
\* a cancellation, a transport error, an encoding failure), no step passes a
\* further chunk to write() and no step calls end(), whether the write loop is
\* resumed by "drain" or by its deferred start.
C26_NoWriteAfterCause ==
  [][(firstCause # null /\ firstCause.error # null /\ clientRequest # null) =>
       /\ clientRequest'.written = clientRequest.written
       /\ clientRequest'.ended = clientRequest.ended]_vars

\* C27: while a write() that returned false has not been followed by "drain",
\* no step passes a chunk to write() or calls end(); at most one "drain"
\* continuation of the write loop is registered at any moment; and the bytes
\* passed to write() are the first requestBodyBufferPointer bytes of the body,
\* in order, each once.
C27_Backpressure ==
  [][clientRequest # null =>
       LET written == clientRequest.written
           concatenated[i \in 0..Len(written)] ==
             IF i = 0 THEN <<>> ELSE concatenated[i - 1] \o written[i]
       IN  /\ clientRequest.drainListeners <= 1
           /\ clientRequest.needDrain <=> clientRequest.drainListeners = 1
           /\ Len(written) > 0 =>
                concatenated[Len(written)] =
                  SubSeq(convertRequestBodyToBuffer.value.bytes, 1,
                         requestBodyBufferPointer)
           /\ (clientRequest.needDrain /\ ~requestDrain) =>
                /\ clientRequest'.written = written
                /\ clientRequest'.ended = clientRequest.ended
                /\ requestBodyBufferPointer' = requestBodyBufferPointer]_vars

\* The first chunk of a three-byte body has been written, write() returned
\* false, and the loop waits for "drain" on a request that is still open.
C27_Witness ==
  /\ clientRequest # null
  /\ clientRequest.needDrain
  /\ ~clientRequest.destroyed
  /\ clientRequest.written = << <<1, 2>> >>
  /\ requestBodyBufferPointer = 2
  /\ requestBodyBufferSize = 3

\* C28: end() is called at most once per instance; without a body it is called
\* in the "socket" step itself; with a body it is called only in a later step,
\* by the write loop, when every byte of the encoded body has been passed to
\* write() and the pointer equals the body size, and never for a body that
\* cannot be encoded; a body of zero bytes is ended without any write().
C28_EndOnce ==
  [][clientRequest' # null =>
       LET request == clientRequest'
           written == request.written
           concatenated[i \in 0..Len(written)] ==
             IF i = 0 THEN <<>> ELSE concatenated[i - 1] \o written[i]
           encoded == convertRequestBodyToBuffer
       IN  /\ request.endCalls <= 1
           /\ request.ended <=> request.endCalls = 1
           /\ IF requestBody = null
              THEN /\ request.ended <=> request.socket
                   /\ written = <<>>
              ELSE request.ended =>
                     /\ "value" \in DOMAIN encoded
                     /\ requestBodyBufferPointer' = encoded.value.length
                     /\ concatenated[Len(written)] = encoded.value.bytes
                     /\ encoded.value.length = 0 => written = <<>>
                     /\ clientRequest # null
                     /\ clientRequest.socket]_vars

\* A string body that encodes to zero bytes (hex) has been ended by the write
\* loop without a write().
C28_Witness ==
  /\ clientRequest # null
  /\ clientRequest.ended
  /\ clientRequest.endCalls = 1
  /\ requestBody # null
  /\ requestBodyBufferSize = 0
  /\ clientRequest.written = <<>>
  /\ immediates = <<>>

\* C29: the request and the response are destroyed by #teardown only, and only
\* for an error cause: the step that initiates a teardown without an error
\* destroys neither, and the step that initiates one with an error (a
\* cancellation included) destroys the request, and the response when a
\* response head has been received.
C29_DestroyOnErrorOnly ==
  [][LET isDestroyed(stream) == stream # null /\ stream.destroyed
     IN  /\ (~teardownInitiated /\ teardownInitiated') =>
              IF firstCause'.error = null
              THEN /\ ~isDestroyed(clientRequest')
                   /\ ~isDestroyed(clientResponse')
              ELSE /\ isDestroyed(clientRequest')
                   /\ clientResponse' # null => isDestroyed(clientResponse')
         /\ (isDestroyed(clientRequest') /\ ~isDestroyed(clientRequest)) =>
              (~teardownInitiated /\ teardownInitiated')
         /\ (isDestroyed(clientResponse') /\ ~isDestroyed(clientResponse)) =>
              (~teardownInitiated /\ teardownInitiated')
         /\ (firstCause # null /\ firstCause.error = null) =>
              (~isDestroyed(clientRequest') /\ ~isDestroyed(clientResponse'))]_vars

\* The response has ended without an error, the future has resolved, and
\* neither the request nor the response has been destroyed.
C29_Witness ==
  /\ clientState = FULFILLED
  /\ firstCause # null
  /\ firstCause.error = null
  /\ clientRequest # null
  /\ ~clientRequest.destroyed
  /\ clientResponse # null
  /\ ~clientResponse.destroyed

\* C30: a step that writes a body chunk while the request timer is armed
\* leaves that timer armed with its whole countdown ahead, and a step that
\* receives a response chunk while the response timer is armed does the same
\* for the response timer; a timer's callback runs only when a whole
\* #clientTimeout has passed since the timer was started or last refreshed;
\* and neither kind of step arms a timer that is not armed (null, or fired).
C30_RefreshRestartsCountdown ==
  [][LET chunkWritten ==
           /\ clientRequest # null
           /\ clientRequest' # null
           /\ Len(clientRequest'.written) > Len(clientRequest.written)
         dataReceived == responseBodyBufferSize' > responseBodyBufferSize
         restarted(timer) == timer = [armed |-> TRUE, remaining |-> clientTimeout]
     IN  /\ (chunkWritten /\ Armed(requestTimer)) => restarted(requestTimer')
         /\ (dataReceived /\ Armed(responseTimer)) => restarted(responseTimer')
         /\ (chunkWritten /\ ~Armed(requestTimer)) => requestTimer' = requestTimer
         /\ (dataReceived /\ ~Armed(responseTimer)) => responseTimer' = responseTimer
         /\ requestTimerExpires => requestTimer.remaining = 0
         /\ responseTimerExpires => responseTimer.remaining = 0
         /\ (Armed(requestTimer) /\ Armed(requestTimer')
               /\ requestTimer'.remaining < requestTimer.remaining) => tick
         /\ (Armed(responseTimer) /\ Armed(responseTimer')
               /\ responseTimer'.remaining < responseTimer.remaining) => tick]_vars

\* A chunk has been written and more of the body waits for "drain", with the
\* request timer armed and its whole countdown ahead.
C30_Witness ==
  /\ clientRequest # null
  /\ Len(clientRequest.written) >= 2
  /\ clientRequest.needDrain
  /\ ~clientRequest.ended
  /\ Armed(requestTimer)
  /\ requestTimer.remaining = clientTimeout
  /\ ~teardownInitiated

\* C31: the request timer goes from not armed to armed only in the step that
\* handles "socket", and the response timer only in the step that handles
\* "finish"; while the response timer is armed the request has finished and
\* no byte of the body is unwritten; and a "data" event before "finish" leaves
\* the response timer null.
C31_TimersArmedAtMilestones ==
  [][LET socketHandled == clientRequest # null /\ ~clientRequest.socket
                            /\ clientRequest'.socket
         finishHandled == clientRequest # null /\ ~clientRequest.finished
                            /\ clientRequest'.finished
         dataReceived == responseBodyBufferSize' > responseBodyBufferSize
         allWritten(request, pointer) ==
           requestBody # null =>
             /\ "value" \in DOMAIN convertRequestBodyToBuffer
             /\ pointer = requestBodyBufferSize
             /\ Len(request.written) > 0 <=> requestBodyBufferSize > 0
     IN  /\ (~Armed(requestTimer) /\ Armed(requestTimer')) => socketHandled
         /\ (~Armed(responseTimer) /\ Armed(responseTimer')) => finishHandled
         /\ (requestTimer = null /\ requestTimer' # null) => socketHandled
         /\ (responseTimer = null /\ responseTimer' # null) => finishHandled
         /\ Armed(responseTimer') =>
              /\ clientRequest'.finished
              /\ allWritten(clientRequest', requestBodyBufferPointer')
         /\ (dataReceived /\ ~clientRequest.finished) =>
              /\ responseTimer = null
              /\ responseTimer' = null]_vars

\* Response data has arrived while the body is still being written: the
\* request timer is armed and there is no response timer.
C31_Witness ==
  /\ clientRequest # null
  /\ ~clientRequest.finished
  /\ requestBody # null
  /\ "value" \in DOMAIN convertRequestBodyToBuffer
  /\ requestBodyBufferPointer < requestBodyBufferSize
  /\ Len(clientRequest.written) > 0
  /\ responseBodyBufferSize > 0
  /\ Armed(requestTimer)
  /\ responseTimer = null
  /\ ~teardownInitiated

\* C32: when the first cause of the teardown is an error the client produced
\* itself (request timed out, response timed out, cancelled, body not
\* serializable, response body not parseable as JSON), the promise of
\* makeRequest() is pending or rejected with exactly that error, and rejected
\* with it once the state is terminal, whatever the transport emits afterwards.
C32_LocalErrorsUnchanged ==
  LET local == {ERROR_HTTP_REQUEST_TIMED_OUT, ERROR_HTTP_RESPONSE_TIMED_OUT,
                ERROR_HTTP_REQUEST_CANCELLED,
                ERROR_HTTP_REQUEST_BODY_OBJECT_NOT_SERIALIZABLE,
                ERROR_HTTP_RESPONSE_BODY_NOT_PARSEABLE_AS_JSON}
  IN  (firstCause # null /\ firstCause.error \in local) =>
        /\ requestPromise \in {Pending, Rejected(firstCause.error)}
        /\ clientState \in Terminal => requestPromise = Rejected(firstCause.error)
        /\ immediates = <<>> => requestPromise = Rejected(firstCause.error)

\* The response timed out, the destroyed transport emitted an error that has
\* no code, and the promise is rejected with the time-out error.
C32_Witness ==
  /\ firstCause # null
  /\ firstCause.error = ERROR_HTTP_RESPONSE_TIMED_OUT
  /\ "error" \in droppedCauses
  /\ \E i \in 1..Len(systemErrors) : "code" \notin DOMAIN systemErrors[i]
  /\ requestPromise = Rejected(ERROR_HTTP_RESPONSE_TIMED_OUT)
  /\ clientState = FAILED

\* C34: the promise of cancelRequest() is never rejected and never resolved
\* with anything but true: it is absent, pending, or resolved with true, and it
\* is resolved only when the first cause of the teardown is the cancellation;
\* once resolved it stays resolved with true.
C34_CancelPromiseTrueOnly ==
  [][/\ cancelPromise' \in {null, Pending, Resolved(TRUE)}
     /\ cancelPromise' = Resolved(TRUE) =>
          /\ firstCause' # null
          /\ firstCause'.origin = "cancel"
          /\ firstCause'.error = ERROR_HTTP_REQUEST_CANCELLED
          /\ clientState' = CANCELLED
     /\ cancelPromise = Resolved(TRUE) => cancelPromise' = Resolved(TRUE)
     /\ cancelPromise # null => cancelPromise' # null]_vars

\* The cancellation was the first cause, the destroyed request emitted an
\* error afterwards, and the promise of cancelRequest() is resolved with true.
C34_Witness ==
  /\ cancelPromise = Resolved(TRUE)
  /\ firstCause # null
  /\ firstCause.origin = "cancel"
  /\ "error" \in droppedCauses
  /\ requestPromise = Rejected(ERROR_HTTP_REQUEST_CANCELLED)
  /\ clientState = CANCELLED

\* C35: whenever #teardown has been called without an error, an HTTPResponse
\* has been assembled before; so the deferred step of a teardown without an
\* error always finds #httpResponse set, moves to FULFILLED and resolves with
\* it, and never moves to FAILED rejecting with ERROR_UNKNOWN.
C35_NoErrorTeardownHasResponse ==
  [][/\ (firstCause' # null /\ firstCause'.error = null) =>
          /\ firstCause'.httpResponse # null
          /\ httpResponse' = firstCause'.httpResponse
     /\ (immediates # <<>> /\ immediates' = Tail(immediates)
           /\ Head(immediates).task = "teardown"
           /\ Head(immediates).error = null) =>
          /\ httpResponse # null
          /\ clientState' = FULFILLED
          /\ requestPromise' = Resolved(httpResponse)
     /\ \A i \in 1..Len(immediates') :
          (immediates'[i].task = "teardown" /\ immediates'[i].error = null) =>
            httpResponse' # null]_vars

\* The deferred step of a teardown without an error has run: the state is
\* FULFILLED and the promise is resolved with the assembled response, whose
\* body is a Buffer.
C35_Witness ==
  /\ firstCause # null
  /\ firstCause.error = null
  /\ immediates = <<>>
  /\ clientState = FULFILLED
  /\ httpResponse # null
  /\ requestPromise = Resolved(httpResponse)
  /\ httpResponse.body # undefined
  /\ "type" \in DOMAIN httpResponse.body

\* C36: each milestone is handled once.  Once "socket" has been handled no
\* step starts the request timer again (a null timer stays null, and a
\* countdown is restarted only by a chunk being written), schedules
\* writeRequestBody again, moves the pointer back, sets the headers again or
\* calls end() a second time; once "finish" has been handled no step starts
\* the response timer again; the response head, the ended response's body and
\* the assembled HTTPResponse never change once they are there.
C36_MilestonesHandledOnce ==
  [][LET socketHandled == clientRequest # null /\ clientRequest.socket
         finishHandled == clientRequest # null /\ clientRequest.finished
         scheduled(queue) ==
           Cardinality({i \in 1..Len(queue) : queue[i].task = "writeRequestBody"})
         chunkWritten == Len(clientRequest'.written) > Len(clientRequest.written)
         dataReceived == responseBodyBufferSize' > responseBodyBufferSize
         restarted(before, after) ==
           /\ after # null
           /\ after.armed
           /\ before = null \/ ~before.armed \/ after.remaining > before.remaining
     IN  /\ socketHandled =>
              /\ clientRequest'.socket
              /\ restarted(requestTimer, requestTimer') =>
                   (requestTimer # null /\ chunkWritten)
              /\ scheduled(immediates') <= scheduled(immediates)
              /\ requestBodyBufferPointer' >= requestBodyBufferPointer
              /\ clientRequest'.headers = clientRequest.headers
              /\ clientRequest'.endCalls <= 1
         /\ finishHandled =>
              /\ clientRequest'.finished
              /\ restarted(responseTimer, responseTimer') =>
                   (responseTimer # null /\ dataReceived)
         /\ clientResponse # null =>
              /\ clientResponse' # null
              /\ clientResponse'.statusCode = clientResponse.statusCode
              /\ clientResponse'.statusMessage = clientResponse.statusMessage
              /\ clientResponse'.headers = clientResponse.headers
              /\ clientResponse.ended =>
                   /\ clientResponse'.ended
                   /\ clientResponse'.body = clientResponse.body
                   /\ responseBodyBufferSize' = responseBodyBufferSize
         /\ httpResponse # null => httpResponse' = httpResponse]_vars

\* The request finished after the teardown had been initiated by the end of
\* the response: the late "finish" has started the response timer, for the
\* first and only time, and the one response has been delivered.
C36_Witness ==
  /\ firstCause # null
  /\ firstCause.origin = "end"
  /\ ~firstCause.finished
  /\ clientRequest # null
  /\ clientRequest.socket
  /\ clientRequest.finished
  /\ clientRequest.endCalls = 1
  /\ requestTimer = null
  /\ responseTimer # null
  /\ clientResponse.ended
  /\ requestPromise = Resolved(httpResponse)

C33_BodyIsConcatenation ==
  [][/\ (httpResponse = null /\ httpResponse' # null) =>
          LET chunks == responseBodyArrayOfBuffers
              total[i \in 0..Len(chunks)] ==
                IF i = 0 THEN 0 ELSE total[i - 1] + chunks[i].length
              joined[i \in 0..Len(chunks)] ==
                IF i = 0 THEN "" ELSE joined[i - 1] \o chunks[i].text
              parsed ==
                /\ autoJSONResponseParse
                /\ "content-type" \in DOMAIN clientResponse.headers
                /\ clientResponse.headers["content-type"] \in
                     {"application/json", "application/json; charset=UTF-16LE"}
          IN  /\ httpResponse'.headers = clientResponse.headers
              /\ httpResponse'.statusCode = clientResponse.statusCode
              /\ httpResponse'.statusMessage = clientResponse.statusMessage
              /\ responseBodyBufferSize = total[Len(chunks)]
              /\ IF Len(chunks) = 0
                 THEN httpResponse'.body = undefined
                 ELSE ~parsed =>
                        httpResponse'.body =
                          [type |-> "Buffer", length |-> total[Len(chunks)],
                           text |-> joined[Len(chunks)]]
     /\ (requestPromise' # null /\ requestPromise'.status = "resolved") =>
          (httpResponse' # null /\ requestPromise'.value = httpResponse')]_vars

\* A response of two chunks, "{}" and then "42", has been delivered without
\* JSON parsing: the body is the Buffer of the four bytes of "{}42".
C33_Witness ==
  /\ clientState = FULFILLED
  /\ ~autoJSONResponseParse
  /\ httpResponse # null
  /\ httpResponse.body = [type |-> "Buffer", length |-> 4, text |-> "{}42"]
  /\ httpResponse.statusCode = 200
  /\ requestPromise = Resolved(httpResponse)

====
